---- MODULE Spec2Model ----
(***************************************************************************)
(* Model of the medicine-strip extraction pipeline of app.py: the OCR      *)
(* cascade, the regex and model-assisted field passes of index(), the date *)
(* parser and the date reconciler, and the two handlers that persist a     *)
(* Medicine record (index, save_ocr).                                      *)
(*                                                                         *)
(* Python values are represented as follows.  A str is a TLA+ string; the  *)
(* Python value None where a str is expected is the string Null.  A date   *)
(* is a triple <<year, month, day>>; None where a date is expected is the  *)
(* empty tuple.  A compiled regular expression is a sequence of nodes      *)
(* built with the constructors below, and re.search / re.match are the     *)
(* operators Search / MatchAt, a backtracking matcher with Python's        *)
(* priority order (leftmost start, first alternative, greedy or lazy       *)
(* repetition).                                                            *)
(***************************************************************************)
EXTENDS Integers, Sequences, FiniteSets, TLC

\* ------------------------------------------------------------------------
\* Characters and strings
\* ------------------------------------------------------------------------
Null == "<null>"

UpperStr == "ABCDEFGHIJKLMNOPQRSTUVWXYZ"
LowerStr == "abcdefghijklmnopqrstuvwxyz"
DigitStr == "0123456789"

CharsOf(str) == {SubSeq(str, k, k) : k \in 1..Len(str)}

Upper == CharsOf(UpperStr)
Lower == CharsOf(LowerStr)
Digit == CharsOf(DigitStr)
Alpha == Upper \cup Lower
Alnum == Alpha \cup Digit
\* \w of the re module
Word == Alnum \cup {"_"}
\* \s of the re module, and the characters str.strip() removes
Space == {" ", "\n", "\t", "\r"}

ToLower == [c \in Upper |-> LET k == CHOOSE i \in 1..26 : SubSeq(UpperStr, i, i) = c
                            IN SubSeq(LowerStr, k, k)]
ToUpper == [c \in Lower |-> LET k == CHOOSE i \in 1..26 : SubSeq(LowerStr, i, i) = c
                            IN SubSeq(UpperStr, k, k)]
DigitVal == [c \in Digit |-> (CHOOSE i \in 1..10 : SubSeq(DigitStr, i, i) = c) - 1]

LowerC(c) == IF c \in Upper THEN ToLower[c] ELSE c

\* str.lower()
RECURSIVE lower(_)
lower(s) == IF Len(s) = 0 THEN ""
            ELSE IF Len(s) = 1 THEN LowerC(s)
            ELSE lower(SubSeq(s, 1, Len(s) \div 2))
                   \o lower(SubSeq(s, Len(s) \div 2 + 1, Len(s)))

\* int() of a string of decimal digits
RECURSIVE int(_)
int(s) == IF s = "" THEN 0 ELSE 10 * int(SubSeq(s, 1, Len(s) - 1)) + DigitVal[SubSeq(s, Len(s), Len(s))]

\* both cases of a character, as re.IGNORECASE matches a literal
BothCases(c) == IF c \in Upper THEN {c, ToLower[c]}
                ELSE IF c \in Lower THEN {c, ToUpper[c]} ELSE {c}

\* s.lstrip(chars), s.rstrip(chars), s.strip()
RECURSIVE lstripOf(_, _)
lstripOf(s, cs) == IF s # "" /\ Head(s) \in cs THEN lstripOf(Tail(s), cs) ELSE s
RECURSIVE rstripOf(_, _)
rstripOf(s, cs) == IF s # "" /\ SubSeq(s, Len(s), Len(s)) \in cs
                   THEN rstripOf(SubSeq(s, 1, Len(s) - 1), cs) ELSE s
strip(s) == rstripOf(lstripOf(s, Space), Space)

\* Python truthiness of a str-or-None
Truthy(s) == s # Null /\ s # ""

\* `needle in hay` for strings
Contains(hay, needle) ==
    \E k \in 1..(Len(hay) - Len(needle) + 1) : SubSeq(hay, k, k + Len(needle) - 1) = needle

\* ------------------------------------------------------------------------
\* Regular expressions (the subset of Python's re the source uses)
\* ------------------------------------------------------------------------
\* In Rep and Lazy an upper limit of -1 is "no limit" (*, +, {n,}).
In(cs) == [t |-> "in", cs |-> cs]
Dot == [t |-> "any"]
Rep(lo, hi, body) == [t |-> "rep", lo |-> lo, hi |-> hi, greedy |-> TRUE, body |-> body]
Lazy(lo, hi, body) == [t |-> "rep", lo |-> lo, hi |-> hi, greedy |-> FALSE, body |-> body]
Star(body) == Rep(0, -1, body)
Plus(body) == Rep(1, -1, body)
Opt(body) == Rep(0, 1, body)
Alt(alts) == [t |-> "alt", alts |-> alts]
Grp(n, body) == [t |-> "grp", n |-> n, body |-> body]
LookAhead(body) == [t |-> "look", body |-> body]
WB == [t |-> "at", k |-> "b"]
BOS == [t |-> "at", k |-> "bos"]
EOS == [t |-> "at", k |-> "eos"]
\* a literal string, case-sensitive / under re.IGNORECASE
CS(str) == <<[t |-> "lit", str |-> str, ci |-> FALSE]>>
CI(str) == <<[t |-> "lit", str |-> lower(str), ci |-> TRUE]>>

NoCaps == <<0, 0, 0, 0, 0, 0>>
Fail == <<>>

IsWordAt(s, i) == i >= 1 /\ i <= Len(s) /\ SubSeq(s, i, i) \in Word

AtHolds(k, s, i) ==
    CASE k = "b" -> IsWordAt(s, i - 1) # IsWordAt(s, i)
      [] k = "bos" -> i = 1
      \* $ without re.MULTILINE: at the end, or before a final newline
      [] k = "eos" -> i = Len(s) + 1 \/ (i = Len(s) /\ SubSeq(s, i, i) = "\n")

\* a one-character node (In or Dot, the latter under re.DOTALL) matching s[i]
CharOk(n, s, i) == n.t = "any" \/ SubSeq(s, i, i) \in n.cs

\* the first position of lo..hi whose character the node does not match, hi + 1
\* if there is none
RECURSIVE FirstBad(_, _, _, _)
FirstBad(n, s, lo, hi) ==
    IF lo > hi THEN lo
    ELSE IF lo = hi THEN (IF CharOk(n, s, lo) THEN lo + 1 ELSE lo)
    ELSE LET mid == (lo + hi) \div 2
             l == FirstBad(n, s, lo, mid)
         IN IF l <= mid THEN l ELSE FirstBad(n, s, mid + 1, hi)

IsCharNode(body) == Len(body) = 1 /\ body[1].t \in {"in", "any"}

\* M(ns, s, sl, i, caps): the nodes ns matched at position i of s, where sl is
\* lower(s); the first match in Python's backtracking order as <<end, caps>>, or
\* Fail.  A repetition of a one-character node takes its run of characters in one
\* step and then tries the run lengths in order: longest first when greedy
\* (TryDown), shortest first when lazy (TryUp).
RECURSIVE M(_, _, _, _, _)
RECURSIVE MAlt(_, _, _, _, _, _, _)
RECURSIVE TryDown(_, _, _, _, _, _, _)
RECURSIVE TryUp(_, _, _, _, _, _, _)
M(ns, s, sl, i, caps) ==
    IF Len(ns) = 0 THEN <<i, caps>>
    ELSE LET n == Head(ns)
             rest == Tail(ns)
         IN CASE n.t = "lit" ->
                   LET e == i + Len(n.str) - 1
                   IN IF e <= Len(s) /\ n.str = SubSeq(IF n.ci THEN sl ELSE s, i, e)
                      THEN M(rest, s, sl, e + 1, caps) ELSE Fail
              [] n.t \in {"in", "any"} ->
                   IF i <= Len(s) /\ CharOk(n, s, i)
                   THEN M(rest, s, sl, i + 1, caps) ELSE Fail
              [] n.t = "at" ->
                   IF AtHolds(n.k, s, i) THEN M(rest, s, sl, i, caps) ELSE Fail
              [] n.t = "grp" ->
                   M(<<[t |-> "open", n |-> n.n]>> \o n.body
                       \o <<[t |-> "close", n |-> n.n]>> \o rest, s, sl, i, caps)
              [] n.t = "open" -> M(rest, s, sl, i, [caps EXCEPT ![2 * n.n - 1] = i])
              [] n.t = "close" -> M(rest, s, sl, i, [caps EXCEPT ![2 * n.n] = i])
              [] n.t = "look" ->
                   IF M(n.body, s, sl, i, caps) # Fail THEN M(rest, s, sl, i, caps)
                   ELSE Fail
              [] n.t = "alt" -> MAlt(n.alts, 1, rest, s, sl, i, caps)
              [] n.t = "rep" /\ IsCharNode(n.body) ->
                   LET last == IF n.hi >= 0 /\ i + n.hi - 1 < Len(s)
                               THEN i + n.hi - 1 ELSE Len(s)
                       run == FirstBad(n.body[1], s, i, last) - i
                   IN IF n.greedy THEN TryDown(rest, s, sl, i, caps, n.lo, run)
                      ELSE TryUp(rest, s, sl, i, caps, n.lo, run)
              [] n.t = "rep" /\ ~IsCharNode(n.body) ->
                   LET again == [n EXCEPT !.lo = IF n.lo > 0 THEN n.lo - 1 ELSE 0,
                                          !.hi = IF n.hi > 0 THEN n.hi - 1 ELSE n.hi]
                       more == IF n.hi # 0
                               THEN M(n.body \o <<again>> \o rest, s, sl, i, caps)
                               ELSE Fail
                   IN IF n.lo > 0 THEN more
                      ELSE IF n.greedy
                           THEN (IF more # Fail THEN more ELSE M(rest, s, sl, i, caps))
                           ELSE LET r == M(rest, s, sl, i, caps)
                                IN IF r # Fail THEN r ELSE more
MAlt(alts, k, rest, s, sl, i, caps) ==
    IF k > Len(alts) THEN Fail
    ELSE LET r == M(alts[k] \o rest, s, sl, i, caps)
         IN IF r # Fail THEN r ELSE MAlt(alts, k + 1, rest, s, sl, i, caps)
\* the match of rest after the largest / smallest k in a..b characters
TryDown(rest, s, sl, i, caps, a, b) ==
    IF a > b THEN Fail
    ELSE IF a = b THEN M(rest, s, sl, i + a, caps)
    ELSE LET mid == (a + b + 1) \div 2
             r == TryDown(rest, s, sl, i, caps, mid, b)
         IN IF r # Fail THEN r ELSE TryDown(rest, s, sl, i, caps, a, mid - 1)
TryUp(rest, s, sl, i, caps, a, b) ==
    IF a > b THEN Fail
    ELSE IF a = b THEN M(rest, s, sl, i + a, caps)
    ELSE LET mid == (a + b) \div 2
             r == TryUp(rest, s, sl, i, caps, a, mid)
         IN IF r # Fail THEN r ELSE TryUp(rest, s, sl, i, caps, mid + 1, b)

\* the match at position i: <<start, end, caps>> or Fail
Started(i, r) == IF r = Fail THEN Fail ELSE <<i, r[1], r[2]>>
MatchLow(p, s, sl, i) == Started(i, M(p, s, sl, i, NoCaps))
\* re.match(p, s) is MatchAt(p, s, 1)
MatchAt(p, s, i) == MatchLow(p, s, lower(s), i)

\* the leftmost match that starts in lo..hi
RECURSIVE SearchIn(_, _, _, _, _)
SearchIn(p, s, sl, lo, hi) ==
    IF lo > hi THEN Fail
    ELSE IF lo = hi THEN MatchLow(p, s, sl, lo)
    ELSE LET mid == (lo + hi) \div 2
             r == SearchIn(p, s, sl, lo, mid)
         IN IF r # Fail THEN r ELSE SearchIn(p, s, sl, mid + 1, hi)

\* re.search(p, s), and the search from position i on
SearchFrom(p, s, i) == SearchIn(p, s, lower(s), i, Len(s) + 1)
Search(p, s) == SearchFrom(p, s, 1)

\* m.group(0), m.group(n)
Group0(s, m) == SubSeq(s, m[1], m[2] - 1)
Group(s, m, n) == SubSeq(s, m[3][2 * n - 1], m[3][2 * n] - 1)

\* re.finditer(p, s): the matches left to right, not overlapping
RECURSIVE FindIter(_, _, _)
RECURSIVE IterAfter(_, _, _)
FindIter(p, s, i) == IterAfter(p, s, SearchFrom(p, s, i))
\* the match m and the matches after it
IterAfter(p, s, m) ==
    IF m = Fail THEN <<>>
    ELSE <<m>> \o FindIter(p, s, IF m[2] > m[1] THEN m[2] ELSE m[2] + 1)
\* re.findall(p, s) for a pattern read as a whole: the matched strings
Groups0(s, ms) == [k \in 1..Len(ms) |-> Group0(s, ms[k])]
FindAll(p, s) == Groups0(s, FindIter(p, s, 1))

\* ------------------------------------------------------------------------
\* Dates: datetime.date as <<year, month, day>>, None as <<>>
\* ------------------------------------------------------------------------
NoDate == <<>>

MkDate(y, m, d) == <<y, m, d>>

\* d1 < d2 for two dates
DateLT(a, b) ==
    \/ a[1] < b[1]
    \/ a[1] = b[1] /\ a[2] < b[2]
    \/ a[1] = b[1] /\ a[2] = b[2] /\ a[3] < b[3]
DateLE(a, b) == a = b \/ DateLT(a, b)

\* min() and max() of a non-empty collection of dates
MinDate(S) == CHOOSE d \in S : \A e \in S : DateLE(d, e)
MaxDate(S) == CHOOSE d \in S : \A e \in S : DateLE(e, d)

IsLeap(y) == y % 4 = 0 /\ (y % 100 # 0 \/ y % 400 = 0)
DaysIn(y, m) == IF m = 2 THEN (IF IsLeap(y) THEN 29 ELSE 28)
                ELSE IF m \in {4, 6, 9, 11} THEN 30 ELSE 31

\* ------------------------------------------------------------------------
\* parse_date_flexible
\* ------------------------------------------------------------------------
MonthAbbr == <<"jan", "feb", "mar", "apr", "may", "jun",
               "jul", "aug", "sep", "oct", "nov", "dec">>
MonthFull == <<"january", "february", "march", "april", "may", "june", "july",
               "august", "september", "october", "november", "december">>

\* month_map_get gone wrong: the default month for every key
month_map_first(key) == 1

\* month_map.get(month_str, 1) for a three-letter key
month_map_get(key) ==
    IF \E k \in 1..12 : MonthAbbr[k] = key
    THEN CHOOSE k \in 1..12 : MonthAbbr[k] = key ELSE 1

fix_year(y) == IF y < 100 THEN (IF y < 50 THEN 2000 + y ELSE 1900 + y) ELSE y

\* valid_year gone wrong: every year is accepted
valid_year_any(y, now) == TRUE

\* now is datetime.utcnow().date()
valid_year(y, now) == 1990 <= y /\ y <= now[1] + 20

\* (Jan|Feb|Mar|Apr|May|Jun|Jul|Aug|Sep|Sept|Oct|Nov|Dec)
RE_MonthAlt ==
    Alt(<<CI("Jan"), CI("Feb"), CI("Mar"), CI("Apr"), CI("May"), CI("Jun"), CI("Jul"),
          CI("Aug"), CI("Sep"), CI("Sept"), CI("Oct"), CI("Nov"), CI("Dec")>>)

\* r"(?i)\b(Jan|...|Dec)[a-z]*[.\-/\s]*(\d{2,4})\b"
RE_pdf_1 == <<WB, Grp(1, <<RE_MonthAlt>>), Star(<<In(Alpha)>>),
              Star(<<In({".", "-", "/"} \cup Space)>>),
              Grp(2, <<Rep(2, 4, <<In(Digit)>>)>>), WB>>
\* r"\b(\d{1,2})[./-](\d{2,4})\b"
RE_pdf_2 == <<WB, Grp(1, <<Rep(1, 2, <<In(Digit)>>)>>), In({".", "/", "-"}),
              Grp(2, <<Rep(2, 4, <<In(Digit)>>)>>), WB>>
\* r"\b(20\d{2})\b"
RE_pdf_3 == <<WB, Grp(1, CS("20") \o <<Rep(2, 2, <<In(Digit)>>)>>), WB>>
\* r"\b(\d{2})\b"
RE_pdf_4 == <<WB, Grp(1, <<Rep(2, 2, <<In(Digit)>>)>>), WB>>

\* The directives of datetime.strptime as _strptime.TimeRE compiles them (under
\* re.IGNORECASE); group 1 is the day, group 2 the month, group 3 the year.
RE_dir_d == Grp(1, <<Alt(<<  <<In({"3"}), In({"0", "1"})>>,
                             <<In({"1", "2"}), In(Digit)>>,
                             <<In({"0"}), In(Digit \ {"0"})>>,
                             <<In(Digit \ {"0"})>>,
                             <<In({" "}), In(Digit \ {"0"})>> >>)>>)
RE_dir_m == Grp(2, <<Alt(<<  <<In({"1"}), In({"0", "1", "2"})>>,
                             <<In({"0"}), In(Digit \ {"0"})>>,
                             <<In(Digit \ {"0"})>> >>)>>)
RE_dir_y == Grp(3, <<Rep(2, 2, <<In(Digit)>>)>>)
RE_dir_Y == Grp(3, <<Rep(4, 4, <<In(Digit)>>)>>)
RE_dir_b == Grp(2, <<Alt([k \in 1..12 |-> CI(MonthAbbr[k])])>>)
\* the full names, longest first
RE_dir_B == Grp(2, <<Alt(<<CI("september"), CI("february"), CI("november"),
                           CI("december"), CI("january"), CI("october"), CI("august"),
                           CI("march"), CI("april"), CI("june"), CI("july"),
                           CI("may")>>)>>)
RE_ws == Plus(<<In(Space)>>)

\* fmts of parse_date_flexible, in order: day is whether %d occurs, name whether the
\* month is %b or %B, y4 whether the year is %Y
Fmts == <<
    [re |-> <<RE_dir_m, In({"/"}), RE_dir_Y>>, day |-> FALSE, name |-> FALSE, y4 |-> TRUE],
    [re |-> <<RE_dir_m, In({"-"}), RE_dir_Y>>, day |-> FALSE, name |-> FALSE, y4 |-> TRUE],
    [re |-> <<RE_dir_m, In({"."}), RE_dir_Y>>, day |-> FALSE, name |-> FALSE, y4 |-> TRUE],
    [re |-> <<RE_dir_m, In({"/"}), RE_dir_y>>, day |-> FALSE, name |-> FALSE, y4 |-> FALSE],
    [re |-> <<RE_dir_m, In({"-"}), RE_dir_y>>, day |-> FALSE, name |-> FALSE, y4 |-> FALSE],
    [re |-> <<RE_dir_d, In({"/"}), RE_dir_m, In({"/"}), RE_dir_Y>>,
        day |-> TRUE, name |-> FALSE, y4 |-> TRUE],
    [re |-> <<RE_dir_d, In({"-"}), RE_dir_m, In({"-"}), RE_dir_Y>>,
        day |-> TRUE, name |-> FALSE, y4 |-> TRUE],
    [re |-> <<RE_dir_d, In({"."}), RE_dir_m, In({"."}), RE_dir_Y>>,
        day |-> TRUE, name |-> FALSE, y4 |-> TRUE],
    [re |-> <<RE_dir_b, RE_ws, RE_dir_Y>>, day |-> FALSE, name |-> TRUE, y4 |-> TRUE],
    [re |-> <<RE_dir_B, RE_ws, RE_dir_Y>>, day |-> FALSE, name |-> TRUE, y4 |-> TRUE],
    [re |-> <<RE_dir_b, RE_ws, RE_dir_y>>, day |-> FALSE, name |-> TRUE, y4 |-> FALSE],
    [re |-> <<RE_dir_B, RE_ws, RE_dir_y>>, day |-> FALSE, name |-> TRUE, y4 |-> FALSE],
    [re |-> <<RE_dir_b, In({"."}), RE_ws, RE_dir_Y>>, day |-> FALSE, name |-> TRUE, y4 |-> TRUE],
    [re |-> <<RE_dir_b, In({"."}), RE_ws, RE_dir_y>>, day |-> FALSE, name |-> TRUE, y4 |-> FALSE],
    [re |-> <<RE_dir_Y>>, day |-> FALSE, name |-> FALSE, y4 |-> TRUE] >>

\* the month a matched %b or %B names
MonthOfName(nm) ==
    CHOOSE k \in 1..12 : MonthAbbr[k] = lower(nm) \/ MonthFull[k] = lower(nm)

\* datetime.strptime(s, fmt).date(), NoDate where it raises ValueError
\* datetime(year, month, day).date(), NoDate where it raises ValueError
date_or_none(year, month, day) ==
    IF year < 1 \/ day > DaysIn(year, month) THEN NoDate ELSE MkDate(year, month, day)

\* %y: values 69-99 are 1969-1999, 0-68 are 2000-2068
year_of_y(yy) == IF yy <= 68 THEN 2000 + yy ELSE 1900 + yy

\* the date of the groups of m, a match of the whole of s
strptime_of(s, f, m) ==
    IF m = Fail \/ m[2] # Len(s) + 1 THEN NoDate
    ELSE date_or_none(IF f.y4 THEN int(Group(s, m, 3)) ELSE year_of_y(int(Group(s, m, 3))),
                      IF m[3][3] = 0 THEN 1
                      ELSE IF f.name THEN MonthOfName(Group(s, m, 2))
                      ELSE int(Group(s, m, 2)),
                      IF f.day THEN int(lstripOf(Group(s, m, 1), {" "})) ELSE 1)

strptime(s, f) == strptime_of(s, f, MatchAt(f.re, s, 1))

\* re.sub(r'\.(\d)', r' \1', s)
RECURSIVE sub_dot_digit(_)
sub_dot_digit(s) ==
    IF s = "" THEN ""
    ELSE IF Head(s) = "." /\ Len(s) >= 2 /\ SubSeq(s, 2, 2) \in Digit
         THEN " " \o SubSeq(s, 2, 2) \o sub_dot_digit(SubSeq(s, 3, Len(s)))
         ELSE Head(s) \o sub_dot_digit(Tail(s))

\* re.sub(r'\s+', ' ', s)
RECURSIVE sub_spaces(_)
sub_spaces(s) ==
    IF s = "" THEN ""
    ELSE IF Head(s) \in Space THEN " " \o sub_spaces(lstripOf(s, Space))
         ELSE Head(s) \o sub_spaces(Tail(s))

\* the loop over fmts, from format k on
\* `if year < 100: year = fix_year(year)` and `if valid_year(year): return ...`
\* for what strptime gave, and otherwise what the rest of the loop gives
fmt_date_or(dt, now, otherwise) ==
    IF dt # NoDate /\ valid_year(fix_year(dt[1]), now)
    THEN MkDate(fix_year(dt[1]), dt[2], dt[3])
    ELSE otherwise

RECURSIVE try_fmts(_, _, _)
try_fmts(sn, k, now) ==
    IF k > Len(Fmts) THEN NoDate
    ELSE fmt_date_or(strptime(sn, Fmts[k]), now, try_fmts(sn, k + 1, now))

Placeholders == {"n/a", "na", "information not available", "unknown", ""}

\* Each step of parse_date_flexible is given the match m of its pattern in s and
\* what the steps after it give.
\* month name and year: 'JAN.24', 'DEC 2026'
pdf_month_year(s, m, now, otherwise) ==
    IF m # Fail /\ valid_year(fix_year(int(Group(s, m, 2))), now)
    THEN MkDate(fix_year(int(Group(s, m, 2))),
                month_map_get(SubSeq(lower(Group(s, m, 1)), 1, 3)), 1)
    ELSE otherwise

\* month number and year: '01/2024', '1-24'
pdf_mm_year(s, m, now, otherwise) ==
    IF /\ m # Fail
       /\ 1 <= int(Group(s, m, 1)) /\ int(Group(s, m, 1)) <= 12
       /\ valid_year(fix_year(int(Group(s, m, 2))), now)
    THEN MkDate(fix_year(int(Group(s, m, 2))), int(Group(s, m, 1)), 1)
    ELSE otherwise

\* a year of four digits, which fix_year leaves as it is, then a year of two digits
pdf_year_only(s, m, now, otherwise) ==
    IF m # Fail /\ valid_year(fix_year(int(Group(s, m, 1))), now)
    THEN MkDate(fix_year(int(Group(s, m, 1))), 1, 1)
    ELSE otherwise

\* the steps, for s stripped
pdf_stripped(s, now) ==
    IF lower(s) \in Placeholders THEN NoDate
    ELSE pdf_month_year(s, Search(RE_pdf_1, s), now,
         pdf_mm_year(s, Search(RE_pdf_2, s), now,
         pdf_year_only(s, Search(RE_pdf_3, s), now,
         pdf_year_only(s, Search(RE_pdf_4, s), now,
         try_fmts(strip(sub_spaces(sub_dot_digit(s))), 1, now)))))

parse_date_flexible(date_str, now) ==
    IF ~Truthy(date_str) THEN NoDate ELSE pdf_stripped(strip(date_str), now)

\* ------------------------------------------------------------------------
\* Date candidates, shelf life, month arithmetic, reconciliation
\* ------------------------------------------------------------------------
\* r"(?i)\b(?:Jan|...|Dec)[a-z]*\s+\d{4}\b"
RE_fdc_1 == <<WB, RE_MonthAlt, Star(<<In(Alpha)>>), Plus(<<In(Space)>>),
              Rep(4, 4, <<In(Digit)>>), WB>>
\* r"\b\d{1,2}[./-]\d{2,4}\b"
RE_fdc_2 == <<WB, Rep(1, 2, <<In(Digit)>>), In({".", "/", "-"}),
              Rep(2, 4, <<In(Digit)>>), WB>>
\* r"\b(?:19|20)\d{2}\b"
RE_fdc_3 == <<WB, Alt(<<CS("19"), CS("20")>>), Rep(2, 2, <<In(Digit)>>), WB>>

SeqToSet(q) == {q[k] : k \in 1..Len(q)}

\* The candidates as a set; sorted(set(candidates)) is this set in ascending order.
find_date_candidates(text, now) ==
    IF ~Truthy(text) THEN {}
    ELSE {parse_date_flexible(strip(raw), now) :
              raw \in SeqToSet(FindAll(RE_fdc_1, text)) \cup SeqToSet(FindAll(RE_fdc_2, text))
                        \cup SeqToSet(FindAll(RE_fdc_3, text))} \ {NoDate}

\* add_months gone wrong: the months are taken off instead of added
add_months_back(d, months) ==
    IF d = NoDate THEN NoDate
    ELSE MkDate(d[1] + ((d[2] - 1 - months) \div 12), ((d[2] - 1 - months) % 12) + 1,
                IF d[3] < 28 THEN d[3] ELSE 28)

\* add_months gone wrong: the division rounds towards zero, as it does for a
\* negative number in C or Java
add_months_trunc(d, months) ==
    IF d = NoDate THEN NoDate
    ELSE IF d[2] - 1 + months >= 0
    THEN MkDate(d[1] + ((d[2] - 1 + months) \div 12), ((d[2] - 1 + months) % 12) + 1,
                IF d[3] < 28 THEN d[3] ELSE 28)
    ELSE MkDate(d[1] - ((0 - (d[2] - 1 + months)) \div 12),
                1 - ((0 - (d[2] - 1 + months)) % 12),
                IF d[3] < 28 THEN d[3] ELSE 28)

\* `datetime(y, m, day)` raises ValueError for a year outside 1..9999 (MINYEAR,
\* MAXYEAR), and so does `datetime(y, m, 1)` in the except branch: the exception
\* leaves add_months
add_months_raises(d, months) ==
    /\ d # NoDate
    /\ \/ d[1] + ((d[2] - 1 + months) \div 12) < 1
       \/ d[1] + ((d[2] - 1 + months) \div 12) > 9999

add_months(d, months) ==
    IF d = NoDate THEN NoDate
    ELSE MkDate(d[1] + ((d[2] - 1 + months) \div 12), ((d[2] - 1 + months) % 12) + 1,
                IF d[3] < 28 THEN d[3] ELSE 28)

\* r"(?i)\b(best\s*before|use\s*before|shelf\s*life)\s*(\d{1,2})\s*months?\b"
RE_slm_1 == <<WB, Grp(1, <<Alt(<<CI("best") \o <<Star(<<In(Space)>>)>> \o CI("before"),
                                 CI("use") \o <<Star(<<In(Space)>>)>> \o CI("before"),
                                 CI("shelf") \o <<Star(<<In(Space)>>)>> \o CI("life")>>)>>),
              Star(<<In(Space)>>), Grp(2, <<Rep(1, 2, <<In(Digit)>>)>>),
              Star(<<In(Space)>>)>> \o CI("month") \o <<Opt(CI("s")), WB>>
\* r"(?i)\b(\d{1,2})\s*months?\s*(?:from|after)\s*(?:mfg|manufacture|manufacturing)\b"
RE_slm_2 == <<WB, Grp(1, <<Rep(1, 2, <<In(Digit)>>)>>), Star(<<In(Space)>>)>>
              \o CI("month") \o <<Opt(CI("s")), Star(<<In(Space)>>),
                                  Alt(<<CI("from"), CI("after")>>), Star(<<In(Space)>>),
                                  Alt(<<CI("mfg"), CI("manufacture"), CI("manufacturing")>>),
                                  WB>>

\* `if m: return int(m.group(n))`, and otherwise what follows
months_or(text, m, n, otherwise) == IF m # Fail THEN int(Group(text, m, n)) ELSE otherwise

\* None is -1
shelf_life_months(text) ==
    IF ~Truthy(text) THEN -1
    ELSE months_or(text, Search(RE_slm_1, text), 2,
         months_or(text, Search(RE_slm_2, text), 1, -1))

\* inverted_pair gone wrong: the candidates are not looked at
inverted_pair_swapped(candidates, mfd_dt, exp_dt) == <<exp_dt, mfd_dt>>

\* the branch `if mfd_dt and exp_dt and exp_dt < mfd_dt:`
inverted_pair(candidates, mfd_dt, exp_dt) ==
    IF Cardinality(candidates) >= 2 THEN <<MinDate(candidates), MaxDate(candidates)>>
    ELSE <<exp_dt, mfd_dt>>

\* missing_expiry gone wrong: a later candidate is taken before the shelf life
missing_expiry_later_first(later, life, mfd_dt) ==
    IF later # {} THEN <<mfd_dt, MinDate(later)>>
    ELSE IF life # -1 /\ life # 0 THEN <<mfd_dt, add_months(mfd_dt, life)>>
    ELSE <<mfd_dt, add_months(mfd_dt, 24)>>

\* the branch `if mfd_dt and not exp_dt:`, for later = [d for d in candidates if
\* d > mfd_dt]; `if life:` fails for None and for 0
missing_expiry(later, life, mfd_dt) ==
    IF life # -1 /\ life # 0 THEN <<mfd_dt, add_months(mfd_dt, life)>>
    ELSE IF later # {} THEN <<mfd_dt, MinDate(later)>>
    ELSE <<mfd_dt, add_months(mfd_dt, 24)>>

\* missing_manufacture with the shelf life put before the earlier candidates
missing_manufacture_life_first(earlier, life, exp_dt) ==
    IF life # -1 /\ life # 0 THEN <<add_months(exp_dt, -life), exp_dt>>
    ELSE IF earlier # {} THEN <<MaxDate(earlier), exp_dt>>
    ELSE <<add_months(exp_dt, -24), exp_dt>>

\* the branch `if exp_dt and not mfd_dt:`, for earlier = [d for d in candidates if
\* d < exp_dt]
missing_manufacture(earlier, life, exp_dt) ==
    IF earlier # {} THEN <<MaxDate(earlier), exp_dt>>
    ELSE IF life # -1 /\ life # 0 THEN <<add_months(exp_dt, -life), exp_dt>>
    ELSE <<add_months(exp_dt, -24), exp_dt>>

\* both_missing with one candidate treated as none
both_missing_today(candidates, now) ==
    IF Cardinality(candidates) >= 2 THEN <<MinDate(candidates), MaxDate(candidates)>>
    ELSE <<now, add_months(now, 12)>>

\* the branch `if not mfd_dt and not exp_dt:`
both_missing(candidates, now) ==
    IF Cardinality(candidates) >= 2 THEN <<MinDate(candidates), MaxDate(candidates)>>
    ELSE IF Cardinality(candidates) = 1
    THEN <<MinDate(candidates), add_months(MinDate(candidates), 24)>>
    ELSE <<now, add_months(now, 12)>>

\* the branches of reconcile_dates_from_text, for the candidates and the shelf life
\* found in the text
reconcile_with(candidates, life, mfd_dt, exp_dt, now) ==
    IF mfd_dt # NoDate /\ exp_dt # NoDate /\ DateLT(exp_dt, mfd_dt)
    THEN inverted_pair(candidates, mfd_dt, exp_dt)
    ELSE IF mfd_dt # NoDate /\ exp_dt = NoDate
    THEN missing_expiry({d \in candidates : DateLT(mfd_dt, d)}, life, mfd_dt)
    ELSE IF exp_dt # NoDate /\ mfd_dt = NoDate
    THEN missing_manufacture({d \in candidates : DateLT(d, exp_dt)}, life, exp_dt)
    ELSE IF mfd_dt = NoDate /\ exp_dt = NoDate
    THEN both_missing(candidates, now)
    ELSE <<mfd_dt, exp_dt>>

\* The result is the pair <<mfd, exp>>.
reconcile_dates_from_text(full_text, mfd_dt, exp_dt, now) ==
    reconcile_with(find_date_candidates(full_text, now), shelf_life_months(full_text),
                   mfd_dt, exp_dt, now)

\* ------------------------------------------------------------------------
\* PATTERNS and find_first_match
\* ------------------------------------------------------------------------
\* Every pattern below is the source's, read with the flags find_first_match passes,
\* re.IGNORECASE | re.DOTALL.  The rupee sign is outside the alphabet of the modelled
\* texts: where a pattern asks for it, the node In({}) stands, which matches nothing.
\* r"(?i)\b(BIFILAC|Bifilac)\b"
RE_brand_name_1 ==
    <<WB, Grp(1, <<Alt(<<CI("BIFILAC"), CI("Bifilac")>>)>>), WB>>
\* r"(?i)\b(O2|O\s*2)\b"
RE_brand_name_2 ==
    <<WB, Grp(1, <<Alt(<<CI("O2"), CI("O") \o <<Star(<<In(Space)>>)>> \o CS("2")>>)>>),
      WB>>
\* r"(?i)\b(Dolo[\s\-]*650|DOLO[\s\-]*650)\b"
RE_brand_name_3 ==
    <<WB, Grp(1, <<Alt(<<CI("Dolo") \o <<Star(<<In(Space \cup {"-"})>>)>> \o CS("650"),
      CI("DOLO") \o <<Star(<<In(Space \cup {"-"})>>)>> \o CS("650")>>)>>), WB>>
\* r"(?i)\b(RABEMI[\s\-]*DSR|Rabemi[\s\-]*DSR)\b"
RE_brand_name_4 ==
    <<WB, Grp(1, <<Alt(<<CI("RABEMI") \o <<Star(<<In(Space \cup {"-"})>>)>>
      \o CI("DSR"), CI("Rabemi") \o <<Star(<<In(Space \cup {"-"})>>)>>
      \o CI("DSR")>>)>>), WB>>
\* r"(?i)\b(Dolo\s*\d+|Crocin|Pan\s*\d+|Azee\s*\d+|Calpol|Combiflam|Allegra|Montair|Augmentin|Zifi\s*\d+|Shelcal|Becosules|Limcee|Revital|Liv\s*52|Digene|Gelusil|Eno|Hajmola|Pudin\s*Hara)\b"
RE_brand_name_5 ==
    <<WB, Grp(1, <<Alt(<<CI("Dolo") \o <<Star(<<In(Space)>>), Plus(<<In(Digit)>>)>>,
      CI("Crocin"), CI("Pan") \o <<Star(<<In(Space)>>), Plus(<<In(Digit)>>)>>,
      CI("Azee") \o <<Star(<<In(Space)>>), Plus(<<In(Digit)>>)>>, CI("Calpol"),
      CI("Combiflam"), CI("Allegra"), CI("Montair"), CI("Augmentin"), CI("Zifi")
      \o <<Star(<<In(Space)>>), Plus(<<In(Digit)>>)>>, CI("Shelcal"), CI("Becosules"),
      CI("Limcee"), CI("Revital"), CI("Liv") \o <<Star(<<In(Space)>>)>> \o CS("52"),
      CI("Digene"), CI("Gelusil"), CI("Eno"), CI("Hajmola"), CI("Pudin")
      \o <<Star(<<In(Space)>>)>> \o CI("Hara")>>)>>), WB>>
\* r"(?i)\b(Ofloxacin|Ornidazole|Paracetamol|Rabeprazole|Domperidone)\s*(?:Tablets?|Capsules?)?\s*(?:I\.?P\.?)?\b"
RE_brand_name_6 ==
    <<WB, Grp(1, <<Alt(<<CI("Ofloxacin"), CI("Ornidazole"), CI("Paracetamol"),
      CI("Rabeprazole"), CI("Domperidone")>>)>>), Star(<<In(Space)>>),
      Opt(<<Alt(<<CI("Tablet") \o <<Opt(CI("s"))>>, CI("Capsule")
      \o <<Opt(CI("s"))>>>>)>>), Star(<<In(Space)>>), Opt(CI("I") \o <<Opt(CS("."))>>
      \o CI("P") \o <<Opt(CS("."))>>), WB>>
\* r"(?i)^([A-Z][A-Za-z0-9\-]+(?:\s*\d+)?)\b"
RE_brand_name_7 ==
    <<BOS, Grp(1, <<In(Alpha), Plus(<<In(Alnum \cup {"-"})>>),
      Opt(<<Star(<<In(Space)>>), Plus(<<In(Digit)>>)>>)>>), WB>>
\* r"(?i)\b([A-Z][a-z]+[\s\-]*\d{2,4})\b"
RE_brand_name_8 ==
    <<WB, Grp(1, <<In(Alpha), Plus(<<In(Alpha)>>), Star(<<In(Space \cup {"-"})>>),
      Rep(2, 4, <<In(Digit)>>)>>), WB>>
\* r"(?i)\b([A-Z][a-z]+(?:\s*[&+]\s*[A-Za-z]+)?)\s*(?:Tablet|Capsule|Syrup|Tab|Cap)\b"
RE_brand_name_9 ==
    <<WB, Grp(1, <<In(Alpha), Plus(<<In(Alpha)>>), Opt(<<Star(<<In(Space)>>), In({"&",
      "+"}), Star(<<In(Space)>>), Plus(<<In(Alpha)>>)>>)>>), Star(<<In(Space)>>),
      Alt(<<CI("Tablet"), CI("Capsule"), CI("Syrup"), CI("Tab"), CI("Cap")>>), WB>>
PATTERNS_brand_name ==
    <<RE_brand_name_1, RE_brand_name_2, RE_brand_name_3, RE_brand_name_4,
      RE_brand_name_5, RE_brand_name_6, RE_brand_name_7, RE_brand_name_8,
      RE_brand_name_9>>

\* r"(?i)(\d+(?:\.\d+)?\s*(?:mg|mcg|g|ml|IU)(?:\s*[+/&]\s*\d+(?:\.\d+)?\s*(?:mg|mcg|g|ml|IU))?)"
RE_dosage_1 ==
    <<Grp(1, <<Plus(<<In(Digit)>>), Opt(CS(".") \o <<Plus(<<In(Digit)>>)>>),
      Star(<<In(Space)>>), Alt(<<CI("mg"), CI("mcg"), CI("g"), CI("ml"), CI("IU")>>),
      Opt(<<Star(<<In(Space)>>), In({"+", "/", "&"}), Star(<<In(Space)>>),
      Plus(<<In(Digit)>>), Opt(CS(".") \o <<Plus(<<In(Digit)>>)>>), Star(<<In(Space)>>),
      Alt(<<CI("mg"), CI("mcg"), CI("g"), CI("ml"), CI("IU")>>)>>)>>)>>
\* r"(?i)\b(\d+\s*mg)\b"
RE_dosage_2 ==
    <<WB, Grp(1, <<Plus(<<In(Digit)>>), Star(<<In(Space)>>)>> \o CI("mg")), WB>>
\* r"(?i)\b(\d+\s*mcg)\b"
RE_dosage_3 ==
    <<WB, Grp(1, <<Plus(<<In(Digit)>>), Star(<<In(Space)>>)>> \o CI("mcg")), WB>>
\* r"(?i)(\d+\s*mg\s*[+/&]\s*\d+\s*mg)"
RE_dosage_4 ==
    <<Grp(1, <<Plus(<<In(Digit)>>), Star(<<In(Space)>>)>> \o CI("mg")
      \o <<Star(<<In(Space)>>), In({"+", "/", "&"}), Star(<<In(Space)>>),
      Plus(<<In(Digit)>>), Star(<<In(Space)>>)>> \o CI("mg"))>>
PATTERNS_dosage ==
    <<RE_dosage_1, RE_dosage_2, RE_dosage_3, RE_dosage_4>>

\* r"(?i)B\.?\s*No\.?\s*[:#.\-]?\s*([A-Z0-9][A-Z0-9\-]{3,})"
RE_batch_number_1 ==
    CI("B") \o <<Opt(CS(".")), Star(<<In(Space)>>)>> \o CI("No") \o <<Opt(CS(".")),
      Star(<<In(Space)>>), Opt(<<In({":", "#", ".", "-"})>>), Star(<<In(Space)>>),
      Grp(1, <<In(Alnum), Rep(3, -1, <<In(Alnum \cup {"-"})>>)>>)>>
\* r"(?i)Batch\s*(?:No\.?|Number|#)?\s*[:#.\-]?\s*([A-Z0-9][A-Z0-9\-]{3,})"
RE_batch_number_2 ==
    CI("Batch") \o <<Star(<<In(Space)>>), Opt(<<Alt(<<CI("No") \o <<Opt(CS("."))>>,
      CI("Number"), CS("#")>>)>>), Star(<<In(Space)>>), Opt(<<In({":", "#", ".",
      "-"})>>), Star(<<In(Space)>>), Grp(1, <<In(Alnum), Rep(3, -1,
      <<In(Alnum \cup {"-"})>>)>>)>>
\* r"(?i)Lot\s*(?:No\.?|Number|#)?\s*[:#.\-]?\s*([A-Z0-9][A-Z0-9\-]{3,})"
RE_batch_number_3 ==
    CI("Lot") \o <<Star(<<In(Space)>>), Opt(<<Alt(<<CI("No") \o <<Opt(CS("."))>>,
      CI("Number"), CS("#")>>)>>), Star(<<In(Space)>>), Opt(<<In({":", "#", ".",
      "-"})>>), Star(<<In(Space)>>), Grp(1, <<In(Alnum), Rep(3, -1,
      <<In(Alnum \cup {"-"})>>)>>)>>
\* r"(?i)B\.N\.?\s*[:#.\-]?\s*([A-Z0-9][A-Z0-9\-]{3,})"
RE_batch_number_4 ==
    CI("B.N") \o <<Opt(CS(".")), Star(<<In(Space)>>), Opt(<<In({":", "#", ".", "-"})>>),
      Star(<<In(Space)>>), Grp(1, <<In(Alnum), Rep(3, -1, <<In(Alnum \cup {"-"})>>)>>)>>
\* r"(?i)L\.?\s*No\.?\s*[:#.\-]?\s*([A-Z0-9][A-Z0-9\-]{3,})"
RE_batch_number_5 ==
    CI("L") \o <<Opt(CS(".")), Star(<<In(Space)>>)>> \o CI("No") \o <<Opt(CS(".")),
      Star(<<In(Space)>>), Opt(<<In({":", "#", ".", "-"})>>), Star(<<In(Space)>>),
      Grp(1, <<In(Alnum), Rep(3, -1, <<In(Alnum \cup {"-"})>>)>>)>>
\* r"\b([A-Z]{2,3}[\-]?[A-Z0-9]{3,})\b"
RE_batch_number_6 ==
    <<WB, Grp(1, <<Rep(2, 3, <<In(Alpha)>>), Opt(CS("-")), Rep(3, -1, <<In(Alnum)>>)>>),
      WB>>
\* r"\b([A-Z]\d{5,})\b"
RE_batch_number_7 ==
    <<WB, Grp(1, <<In(Alpha), Rep(5, -1, <<In(Digit)>>)>>), WB>>
\* r"\b([A-Z]{1,3}\d{4,})\b"
RE_batch_number_8 ==
    <<WB, Grp(1, <<Rep(1, 3, <<In(Alpha)>>), Rep(4, -1, <<In(Digit)>>)>>), WB>>
PATTERNS_batch_number ==
    <<RE_batch_number_1, RE_batch_number_2, RE_batch_number_3, RE_batch_number_4,
      RE_batch_number_5, RE_batch_number_6, RE_batch_number_7, RE_batch_number_8>>

\* r"(?i)MFG\.?\s*(?:DT\.?|DATE|D)?\s*[:#.\-]?\s*([A-Z]{3}\.?\s*\d{2,4})"
RE_mfd_1 ==
    CI("MFG") \o <<Opt(CS(".")), Star(<<In(Space)>>), Opt(<<Alt(<<CI("DT")
      \o <<Opt(CS("."))>>, CI("DATE"), CI("D")>>)>>), Star(<<In(Space)>>),
      Opt(<<In({":", "#", ".", "-"})>>), Star(<<In(Space)>>), Grp(1, <<Rep(3, 3,
      <<In(Alpha)>>), Opt(CS(".")), Star(<<In(Space)>>), Rep(2, 4, <<In(Digit)>>)>>)>>
\* r"(?i)MFD\.?\s*(?:DT\.?|DATE|D)?\s*[:#.\-]?\s*([A-Z]{3}\.?\s*\d{2,4})"
RE_mfd_2 ==
    CI("MFD") \o <<Opt(CS(".")), Star(<<In(Space)>>), Opt(<<Alt(<<CI("DT")
      \o <<Opt(CS("."))>>, CI("DATE"), CI("D")>>)>>), Star(<<In(Space)>>),
      Opt(<<In({":", "#", ".", "-"})>>), Star(<<In(Space)>>), Grp(1, <<Rep(3, 3,
      <<In(Alpha)>>), Opt(CS(".")), Star(<<In(Space)>>), Rep(2, 4, <<In(Digit)>>)>>)>>
\* r"(?i)M\.?D\.?\s*[:#.\-]?\s*([A-Z]{3}\.?\s*\d{2,4})"
RE_mfd_3 ==
    CI("M") \o <<Opt(CS("."))>> \o CI("D") \o <<Opt(CS(".")), Star(<<In(Space)>>),
      Opt(<<In({":", "#", ".", "-"})>>), Star(<<In(Space)>>), Grp(1, <<Rep(3, 3,
      <<In(Alpha)>>), Opt(CS(".")), Star(<<In(Space)>>), Rep(2, 4, <<In(Digit)>>)>>)>>
\* r"(?i)MFG\.?\s*(?:DT\.?|DATE)?\s*[:#.\-]?\s*(\d{1,2}[./-]\d{2,4})"
RE_mfd_4 ==
    CI("MFG") \o <<Opt(CS(".")), Star(<<In(Space)>>), Opt(<<Alt(<<CI("DT")
      \o <<Opt(CS("."))>>, CI("DATE")>>)>>), Star(<<In(Space)>>), Opt(<<In({":", "#",
      ".", "-"})>>), Star(<<In(Space)>>), Grp(1, <<Rep(1, 2, <<In(Digit)>>), In({".",
      "/", "-"}), Rep(2, 4, <<In(Digit)>>)>>)>>
\* r"(?i)MFD\.?\s*(?:DT\.?|DATE)?\s*[:#.\-]?\s*(\d{1,2}[./-]\d{2,4})"
RE_mfd_5 ==
    CI("MFD") \o <<Opt(CS(".")), Star(<<In(Space)>>), Opt(<<Alt(<<CI("DT")
      \o <<Opt(CS("."))>>, CI("DATE")>>)>>), Star(<<In(Space)>>), Opt(<<In({":", "#",
      ".", "-"})>>), Star(<<In(Space)>>), Grp(1, <<Rep(1, 2, <<In(Digit)>>), In({".",
      "/", "-"}), Rep(2, 4, <<In(Digit)>>)>>)>>
\* r"(?i)(?:Mfg|Mfd|Manufactured)\s*[:#.\-]?\s*([A-Z]{3}\.?\s*\d{2,4}|\d{1,2}[./-]\d{2,4})"
RE_mfd_6 ==
    <<Alt(<<CI("Mfg"), CI("Mfd"), CI("Manufactured")>>), Star(<<In(Space)>>),
      Opt(<<In({":", "#", ".", "-"})>>), Star(<<In(Space)>>), Grp(1, <<Alt(<<<<Rep(3, 3,
      <<In(Alpha)>>), Opt(CS(".")), Star(<<In(Space)>>), Rep(2, 4, <<In(Digit)>>)>>,
      <<Rep(1, 2, <<In(Digit)>>), In({".", "/", "-"}), Rep(2, 4,
      <<In(Digit)>>)>>>>)>>)>>
\* r"(?i)MFG\.?\s*[:#.\-]?\s*(\d{2}[./-]\d{4})"
RE_mfd_7 ==
    CI("MFG") \o <<Opt(CS(".")), Star(<<In(Space)>>), Opt(<<In({":", "#", ".", "-"})>>),
      Star(<<In(Space)>>), Grp(1, <<Rep(2, 2, <<In(Digit)>>), In({".", "/", "-"}),
      Rep(4, 4, <<In(Digit)>>)>>)>>
\* r"(?i)(\d{2}/\d{4})\s*(?=.*EXP)"
RE_mfd_8 ==
    <<Grp(1, <<Rep(2, 2, <<In(Digit)>>)>> \o CS("/") \o <<Rep(4, 4, <<In(Digit)>>)>>),
      Star(<<In(Space)>>), LookAhead(<<Star(<<Dot>>)>> \o CI("EXP"))>>
PATTERNS_mfd ==
    <<RE_mfd_1, RE_mfd_2, RE_mfd_3, RE_mfd_4, RE_mfd_5, RE_mfd_6, RE_mfd_7, RE_mfd_8>>

\* r"(?i)EXP\.?\s*(?:DT\.?|DATE|D)?\s*[:#.\-]?\s*([A-Z]{3}\.?\s*\d{2,4})"
RE_expiry_1 ==
    CI("EXP") \o <<Opt(CS(".")), Star(<<In(Space)>>), Opt(<<Alt(<<CI("DT")
      \o <<Opt(CS("."))>>, CI("DATE"), CI("D")>>)>>), Star(<<In(Space)>>),
      Opt(<<In({":", "#", ".", "-"})>>), Star(<<In(Space)>>), Grp(1, <<Rep(3, 3,
      <<In(Alpha)>>), Opt(CS(".")), Star(<<In(Space)>>), Rep(2, 4, <<In(Digit)>>)>>)>>
\* r"(?i)E\.?D\.?\s*[:#.\-]?\s*([A-Z]{3}\.?\s*\d{2,4})"
RE_expiry_2 ==
    CI("E") \o <<Opt(CS("."))>> \o CI("D") \o <<Opt(CS(".")), Star(<<In(Space)>>),
      Opt(<<In({":", "#", ".", "-"})>>), Star(<<In(Space)>>), Grp(1, <<Rep(3, 3,
      <<In(Alpha)>>), Opt(CS(".")), Star(<<In(Space)>>), Rep(2, 4, <<In(Digit)>>)>>)>>
\* r"(?i)EXP\.?\s*(?:DT\.?|DATE)?\s*[:#.\-]?\s*(\d{1,2}[./-]\d{2,4})"
RE_expiry_3 ==
    CI("EXP") \o <<Opt(CS(".")), Star(<<In(Space)>>), Opt(<<Alt(<<CI("DT")
      \o <<Opt(CS("."))>>, CI("DATE")>>)>>), Star(<<In(Space)>>), Opt(<<In({":", "#",
      ".", "-"})>>), Star(<<In(Space)>>), Grp(1, <<Rep(1, 2, <<In(Digit)>>), In({".",
      "/", "-"}), Rep(2, 4, <<In(Digit)>>)>>)>>
\* r"(?i)(?:Expiry|Exp|Use\s*Before|Best\s*Before)\s*[:#.\-]?\s*([A-Z]{3}\.?\s*\d{2,4}|\d{1,2}[./-]\d{2,4})"
RE_expiry_4 ==
    <<Alt(<<CI("Expiry"), CI("Exp"), CI("Use") \o <<Star(<<In(Space)>>)>>
      \o CI("Before"), CI("Best") \o <<Star(<<In(Space)>>)>> \o CI("Before")>>),
      Star(<<In(Space)>>), Opt(<<In({":", "#", ".", "-"})>>), Star(<<In(Space)>>),
      Grp(1, <<Alt(<<<<Rep(3, 3, <<In(Alpha)>>), Opt(CS(".")), Star(<<In(Space)>>),
      Rep(2, 4, <<In(Digit)>>)>>, <<Rep(1, 2, <<In(Digit)>>), In({".", "/", "-"}),
      Rep(2, 4, <<In(Digit)>>)>>>>)>>)>>
\* r"(?i)(?:Use|Best)\s*(?:Before|By)\s*[:#.\-]?\s*([A-Z]{3}\.?\s*\d{2,4}|\d{1,2}[./-]\d{2,4})"
RE_expiry_5 ==
    <<Alt(<<CI("Use"), CI("Best")>>), Star(<<In(Space)>>), Alt(<<CI("Before"),
      CI("By")>>), Star(<<In(Space)>>), Opt(<<In({":", "#", ".", "-"})>>),
      Star(<<In(Space)>>), Grp(1, <<Alt(<<<<Rep(3, 3, <<In(Alpha)>>), Opt(CS(".")),
      Star(<<In(Space)>>), Rep(2, 4, <<In(Digit)>>)>>, <<Rep(1, 2, <<In(Digit)>>),
      In({".", "/", "-"}), Rep(2, 4, <<In(Digit)>>)>>>>)>>)>>
\* r"(?i)EXP\.?\s*[:#.\-]?\s*(\d{2}[./-]\d{4})"
RE_expiry_6 ==
    CI("EXP") \o <<Opt(CS(".")), Star(<<In(Space)>>), Opt(<<In({":", "#", ".", "-"})>>),
      Star(<<In(Space)>>), Grp(1, <<Rep(2, 2, <<In(Digit)>>), In({".", "/", "-"}),
      Rep(4, 4, <<In(Digit)>>)>>)>>
\* r"(?i)EXP\.?\s*[:#.\-]?\s*([A-Z]{3}\.?\s*\d{2})"
RE_expiry_7 ==
    CI("EXP") \o <<Opt(CS(".")), Star(<<In(Space)>>), Opt(<<In({":", "#", ".", "-"})>>),
      Star(<<In(Space)>>), Grp(1, <<Rep(3, 3, <<In(Alpha)>>), Opt(CS(".")),
      Star(<<In(Space)>>), Rep(2, 2, <<In(Digit)>>)>>)>>
\* r"(?i)(?:JUL|AUG|SEP|OCT|NOV|DEC|JAN|FEB|MAR|APR|MAY|JUN)\.?\s*\d{4}\s*$"
RE_expiry_8 ==
    <<Alt(<<CI("JUL"), CI("AUG"), CI("SEP"), CI("OCT"), CI("NOV"), CI("DEC"), CI("JAN"),
      CI("FEB"), CI("MAR"), CI("APR"), CI("MAY"), CI("JUN")>>), Opt(CS(".")),
      Star(<<In(Space)>>), Rep(4, 4, <<In(Digit)>>), Star(<<In(Space)>>), EOS>>
PATTERNS_expiry ==
    <<RE_expiry_1, RE_expiry_2, RE_expiry_3, RE_expiry_4, RE_expiry_5, RE_expiry_6,
      RE_expiry_7, RE_expiry_8>>

\* r"(?i)(?:Mfd\.?\s*by|Mfg\.?\s*by|Manufactured\s*by|Marketed\s*by|Mkt\.?\s*by)\s*[:#]?\s*([A-Za-z][A-Za-z\s&\.\-]+?)(?:\s*(?:Ltd|Pvt|Private|Limited|Pharma|Pharmaceuticals|Healthcare|Laboratories|Labs))"
RE_manufacturer_1 ==
    <<Alt(<<CI("Mfd") \o <<Opt(CS(".")), Star(<<In(Space)>>)>> \o CI("by"), CI("Mfg")
      \o <<Opt(CS(".")), Star(<<In(Space)>>)>> \o CI("by"), CI("Manufactured")
      \o <<Star(<<In(Space)>>)>> \o CI("by"), CI("Marketed") \o <<Star(<<In(Space)>>)>>
      \o CI("by"), CI("Mkt") \o <<Opt(CS(".")), Star(<<In(Space)>>)>> \o CI("by")>>),
      Star(<<In(Space)>>), Opt(<<In({":", "#"})>>), Star(<<In(Space)>>), Grp(1,
      <<In(Alpha), Lazy(1, -1, <<In(Alpha \cup Space \cup {"&", ".", "-"})>>)>>),
      Star(<<In(Space)>>), Alt(<<CI("Ltd"), CI("Pvt"), CI("Private"), CI("Limited"),
      CI("Pharma"), CI("Pharmaceuticals"), CI("Healthcare"), CI("Laboratories"),
      CI("Labs")>>)>>
\* r"(?i)\b(Mankind|Cipla|Sun\s*Pharma|Dr\.?\s*Reddy'?s?|Lupin|Abbott|GSK|Pfizer|Zydus|Torrent|Alkem|Intas|Glenmark|Cadila|Micro\s*Labs|Macleods|Ranbaxy|Biocon|Wockhardt|Ipca|USV|Alembic|FDC|Ajanta|Eris|Natco|Hetero|Aurobindo|Emcure|Aristo|Blue\s*Cross|Sanofi|Bayer|Novartis|Merck|AstraZeneca|Meyer|Franco\s*Indian|JB\s*Chemicals?|Medy|Medley|TOA|TOAPHARMA|Paalmi|Renewed\s*Life|Meyer\s*Organics)\b"
RE_manufacturer_2 ==
    <<WB, Grp(1, <<Alt(<<CI("Mankind"), CI("Cipla"), CI("Sun")
      \o <<Star(<<In(Space)>>)>> \o CI("Pharma"), CI("Dr") \o <<Opt(CS(".")),
      Star(<<In(Space)>>)>> \o CI("Reddy") \o <<Opt(CS("'")), Opt(CI("s"))>>,
      CI("Lupin"), CI("Abbott"), CI("GSK"), CI("Pfizer"), CI("Zydus"), CI("Torrent"),
      CI("Alkem"), CI("Intas"), CI("Glenmark"), CI("Cadila"), CI("Micro")
      \o <<Star(<<In(Space)>>)>> \o CI("Labs"), CI("Macleods"), CI("Ranbaxy"),
      CI("Biocon"), CI("Wockhardt"), CI("Ipca"), CI("USV"), CI("Alembic"), CI("FDC"),
      CI("Ajanta"), CI("Eris"), CI("Natco"), CI("Hetero"), CI("Aurobindo"),
      CI("Emcure"), CI("Aristo"), CI("Blue") \o <<Star(<<In(Space)>>)>> \o CI("Cross"),
      CI("Sanofi"), CI("Bayer"), CI("Novartis"), CI("Merck"), CI("AstraZeneca"),
      CI("Meyer"), CI("Franco") \o <<Star(<<In(Space)>>)>> \o CI("Indian"), CI("JB")
      \o <<Star(<<In(Space)>>)>> \o CI("Chemical") \o <<Opt(CI("s"))>>, CI("Medy"),
      CI("Medley"), CI("TOA"), CI("TOAPHARMA"), CI("Paalmi"), CI("Renewed")
      \o <<Star(<<In(Space)>>)>> \o CI("Life"), CI("Meyer") \o <<Star(<<In(Space)>>)>>
      \o CI("Organics")>>)>>), WB>>
\* r"(?i)TABLETS?\s*\(INDIA\)\s*(LIMITED|LTD)"
RE_manufacturer_3 ==
    CI("TABLET") \o <<Opt(CI("S")), Star(<<In(Space)>>)>> \o CI("(INDIA)")
      \o <<Star(<<In(Space)>>), Grp(1, <<Alt(<<CI("LIMITED"), CI("LTD")>>)>>)>>
PATTERNS_manufacturer ==
    <<RE_manufacturer_1, RE_manufacturer_2, RE_manufacturer_3>>

\* r"(?i)M\.?R\.?P\.?\s*[:#]?\s*(?:Rs\.?|<rupee>|INR)?\s*(\d+(?:[.,]\d{1,2})?)"
RE_mrp_1 ==
    CI("M") \o <<Opt(CS("."))>> \o CI("R") \o <<Opt(CS("."))>> \o CI("P")
      \o <<Opt(CS(".")), Star(<<In(Space)>>), Opt(<<In({":", "#"})>>),
      Star(<<In(Space)>>), Opt(<<Alt(<<CI("Rs") \o <<Opt(CS("."))>>, <<In({})>>,
      CI("INR")>>)>>), Star(<<In(Space)>>), Grp(1, <<Plus(<<In(Digit)>>), Opt(<<In({".",
      ","}), Rep(1, 2, <<In(Digit)>>)>>)>>)>>
\* r"(?i)(?:Price|MRP)\s*[:#]?\s*(?:Rs\.?|<rupee>|INR)?\s*(\d+(?:[.,]\d{1,2})?)"
RE_mrp_2 ==
    <<Alt(<<CI("Price"), CI("MRP")>>), Star(<<In(Space)>>), Opt(<<In({":", "#"})>>),
      Star(<<In(Space)>>), Opt(<<Alt(<<CI("Rs") \o <<Opt(CS("."))>>, <<In({})>>,
      CI("INR")>>)>>), Star(<<In(Space)>>), Grp(1, <<Plus(<<In(Digit)>>), Opt(<<In({".",
      ","}), Rep(1, 2, <<In(Digit)>>)>>)>>)>>
\* r"(?i)Rs\.?\s*(\d+(?:[.,]\d{1,2})?)"
RE_mrp_3 ==
    CI("Rs") \o <<Opt(CS(".")), Star(<<In(Space)>>), Grp(1, <<Plus(<<In(Digit)>>),
      Opt(<<In({".", ","}), Rep(1, 2, <<In(Digit)>>)>>)>>)>>
\* r"<rupee>\s*(\d+(?:[.,]\d{1,2})?)"
RE_mrp_4 ==
    <<In({}), Star(<<In(Space)>>), Grp(1, <<Plus(<<In(Digit)>>), Opt(<<In({".", ","}),
      Rep(1, 2, <<In(Digit)>>)>>)>>)>>
\* r"(?i)M\.R\.P\.Rs\.?\s*(\d+(?:[.,]\d{1,2})?)"
RE_mrp_5 ==
    CI("M.R.P.Rs") \o <<Opt(CS(".")), Star(<<In(Space)>>), Grp(1, <<Plus(<<In(Digit)>>),
      Opt(<<In({".", ","}), Rep(1, 2, <<In(Digit)>>)>>)>>)>>
\* r"(?i)FOR\s*\d+\s*(?:TABS?|CAPS?)\s*.*?Rs\.?\s*(\d+(?:[.,]\d{1,2})?)"
RE_mrp_6 ==
    CI("FOR") \o <<Star(<<In(Space)>>), Plus(<<In(Digit)>>), Star(<<In(Space)>>),
      Alt(<<CI("TAB") \o <<Opt(CI("S"))>>, CI("CAP") \o <<Opt(CI("S"))>>>>),
      Star(<<In(Space)>>), Lazy(0, -1, <<Dot>>)>> \o CI("Rs") \o <<Opt(CS(".")),
      Star(<<In(Space)>>), Grp(1, <<Plus(<<In(Digit)>>), Opt(<<In({".", ","}), Rep(1, 2,
      <<In(Digit)>>)>>)>>)>>
PATTERNS_mrp ==
    <<RE_mrp_1, RE_mrp_2, RE_mrp_3, RE_mrp_4, RE_mrp_5, RE_mrp_6>>

NotAvailable == "Information not available"

\* len(match.groups()) > 0: in every pattern above that has a group, group 1 takes
\* part in every match
HasGroups(m) == m[3][1] # 0

\* group_1_or gone wrong: a later pattern that matches is preferred
group_1_or_later(text, m, otherwise) ==
    IF otherwise # "Information not available" THEN otherwise
    ELSE IF m # Fail /\ m[3][1] # 0 THEN strip(Group(text, m, 1)) ELSE otherwise

\* `if match: if len(match.groups()) > 0: return match.group(1).strip()`, and
\* otherwise what the rest of the loop gives
group_1_or(text, m, otherwise) ==
    IF m # Fail /\ HasGroups(m) THEN strip(Group(text, m, 1)) ELSE otherwise

RECURSIVE find_first_match_from(_, _, _)
find_first_match_from(text, patterns, k) ==
    IF k > Len(patterns) THEN NotAvailable
    ELSE group_1_or(text, Search(patterns[k], text),
                    find_first_match_from(text, patterns, k + 1))

find_first_match(text, patterns) == find_first_match_from(text, patterns, 1)

\* ------------------------------------------------------------------------
\* clean_extracted_value, is_valid_brand, normalize_vertical
\* ------------------------------------------------------------------------
\* re.sub(p, repl, s) for a constant replacement and a pattern without empty matches
RECURSIVE re_sub_from(_, _, _, _)
RECURSIVE re_sub_at(_, _, _, _, _)
re_sub_from(p, repl, s, i) == re_sub_at(p, repl, s, i, SearchFrom(p, s, i))
\* s from i on, where m is the next match
re_sub_at(p, repl, s, i, m) ==
    IF m = Fail \/ m[2] = m[1] THEN SubSeq(s, i, Len(s))
    ELSE SubSeq(s, i, m[1] - 1) \o repl \o re_sub_from(p, repl, s, m[2])
re_sub(p, repl, s) == re_sub_from(p, repl, s, 1)

\* s.split(): the whitespace-separated tokens
RECURSIVE split(_)
RECURSIVE split_at(_, _)
split_stripped(t) == IF t = "" THEN <<>> ELSE split_at(t, Search(<<In(Space)>>, t))
split(s) == split_stripped(lstripOf(s, Space))
\* the tokens of t, which starts with a token that ends where m starts
split_at(t, m) ==
    IF m = Fail THEN <<t>>
    ELSE <<SubSeq(t, 1, m[1] - 1)>> \o split(SubSeq(t, m[1], Len(t)))

invalid_starts == {"each", "film", "coated", "tablet", "capsule", "contains",
                   "information", "store", "keep", "protect", "the", "this", "for", "use"}

\* [:\-\.\s]
Noise == {":", "-", "."} \cup Space

\* r'\s*(tablets?|capsules?|I\.?P\.?|B\.?P\.?)$' with re.IGNORECASE
RE_cev_suffix ==
    <<Star(<<In(Space)>>),
      Grp(1, <<Alt(<<CI("tablet") \o <<Opt(CI("s"))>>, CI("capsule") \o <<Opt(CI("s"))>>,
                     CI("I") \o <<Opt(CS("."))>> \o CI("P") \o <<Opt(CS("."))>>,
                     CI("B") \o <<Opt(CS("."))>> \o CI("P") \o <<Opt(CS("."))>>>>)>>), EOS>>
\* r'(\d+(?:[.,]\d{1,2})?)'
RE_number == <<Grp(1, <<Plus(<<In(Digit)>>),
                        Opt(<<In({".", ","}), Rep(1, 2, <<In(Digit)>>)>>)>>)>>

\* s.replace(a, b) for single characters a, b
RECURSIVE replace(_, _, _)
replace(s, a, b) == IF Len(s) = 0 THEN ""
                    ELSE IF Len(s) = 1 THEN (IF s = a THEN b ELSE s)
                    ELSE replace(SubSeq(s, 1, Len(s) \div 2), a, b)
                           \o replace(SubSeq(s, Len(s) \div 2 + 1, Len(s)), a, b)

\* The condition of `if value.lower().split()[0] if value.split() else '' in
\* invalid_starts:`, which Python reads as
\* (value.lower().split()[0]) if value.split() else ('' in invalid_starts).
brand_rejected(value) ==
    IF split(value) # <<>> THEN Truthy(split(lower(value))[1]) ELSE "" \in invalid_starts

\* `return value if value else None`
OrNull(value) == IF value # "" THEN value ELSE Null

\* the branch for "mrp", where match is re.search(r'(\d+(?:[.,]\d{1,2})?)', value)
clean_mrp(value, match) ==
    IF match # Fail THEN OrNull(replace(Group(value, match, 1), ",", ".")) ELSE Null

\* the branches by field type, for the value stripped of spaces and punctuation
clean_stripped(value, field_type) ==
    CASE field_type = "brand" ->
           IF brand_rejected(value) THEN Null
           ELSE OrNull(re_sub(RE_cev_suffix, "", value))
      [] field_type = "batch" ->
           IF Search(<<In(Alnum)>>, value) = Fail THEN Null
           ELSE OrNull(lstripOf(value, Noise))
      [] field_type = "mrp" -> clean_mrp(value, Search(RE_number, value))
      [] OTHER -> OrNull(value)

clean_extracted_value(value_in, field_type) ==
    IF ~Truthy(value_in) \/ value_in = NotAvailable THEN Null
    ELSE clean_stripped(rstripOf(lstripOf(strip(value_in), Noise), Noise), field_type)

\* invalid_brand_patterns of index: each is matched at the start, case-insensitively
invalid_brand_patterns == <<
    CI("each") \o <<In(Space)>>, CI("film") \o <<In(Space)>>, CI("coated"), CI("tablet"),
    CI("capsule"), CI("contains"), CI("information"), CI("store"), CI("keep"),
    CI("protect"), CI("the") \o <<In(Space)>>, CI("this") \o <<In(Space)>>,
    CI("for") \o <<In(Space)>>, CI("use") \o <<In(Space)>> >>

is_valid_brand(val) ==
    IF ~Truthy(val) \/ strip(val) = "" THEN FALSE
    ELSE \A k \in 1..Len(invalid_brand_patterns) :
            MatchAt(invalid_brand_patterns[k], strip(val), 1) = Fail

\* text.splitlines(), for texts whose only line break is "\n"
RECURSIVE splitlines(_)
RECURSIVE splitlines_at(_, _)
splitlines(s) == IF s = "" THEN <<>> ELSE splitlines_at(s, Search(<<In({"\n"})>>, s))
\* the lines of s, whose first line break is m
splitlines_at(s, m) ==
    IF m = Fail THEN <<s>>
    ELSE <<SubSeq(s, 1, m[1] - 1)>> \o splitlines(SubSeq(s, m[2], Len(s)))

\* "\n".join(lines)
RECURSIVE join_lines(_)
join_lines(ls) == IF ls = <<>> THEN ""
                  ELSE IF Len(ls) = 1 THEN ls[1]
                  ELSE ls[1] \o "\n" \o join_lines(Tail(ls))

IsSingleAlnum(line) == Len(strip(line)) = 1 /\ strip(line) \in Alnum

\* The lines of normalize_vertical from line i on; run is the run of one-character
\* lines collected so far ("" when none is open).
RECURSIVE normalize_lines(_, _, _)
normalize_lines(lines, i, run) ==
    IF i > Len(lines) THEN (IF run = "" THEN <<>> ELSE <<run>>)
    ELSE IF IsSingleAlnum(lines[i]) THEN normalize_lines(lines, i + 1, run \o strip(lines[i]))
    ELSE (IF run = "" THEN <<>> ELSE <<run>>)
           \o <<strip(lines[i])>> \o normalize_lines(lines, i + 1, "")

normalize_vertical(text) == join_lines(normalize_lines(splitlines(text), 1, ""))

\* ------------------------------------------------------------------------
\* post_process_extracted_data
\* ------------------------------------------------------------------------
brand_corrections == <<
    <<"bifilac", "BIFILAC">>, <<"bifiiac", "BIFILAC">>, <<"bifllac", "BIFILAC">>,
    <<"bif1lac", "BIFILAC">>, <<"o 2", "O2">>, <<"02", "O2">>, <<"oz", "O2">>,
    <<"dolo 650", "Dolo-650">>, <<"dolo650", "Dolo-650">>, <<"dol0 650", "Dolo-650">>,
    <<"dolo-65o", "Dolo-650">>, <<"rabemi dsr", "RABEMI-DSR">>,
    <<"rabemidsr", "RABEMI-DSR">>, <<"rabemi-dsr", "RABEMI-DSR">> >>

manufacturer_corrections == <<
    <<"toa", "TOA Pharmaceuticals">>, <<"toa pharma", "TOA Pharmaceuticals">>,
    <<"meyer", "Meyer Organics">>, <<"meyer organics", "Meyer Organics">>,
    <<"micro labs", "Micro Labs">>, <<"microlabs", "Micro Labs">>,
    <<"paalmi", "Paalmi Pharmaceuticals">>, <<"renewed life", "Renewed Life Sciences">> >>

\* the corrections of a brand, for brand_lower = brand.lower().strip()
correct_lowered(brand, brand_lower) ==
    LET hit == {k \in 1..Len(brand_corrections) : brand_corrections[k][1] = brand_lower}
    IN IF hit # {} THEN brand_corrections[CHOOSE k \in hit : TRUE][2]
       ELSE IF Contains(brand_lower, "bifilac") THEN "BIFILAC"
       ELSE IF Contains(brand_lower, "rabemi") /\ Contains(brand_lower, "dsr")
            THEN "RABEMI-DSR"
       ELSE IF Contains(brand_lower, "dolo") /\ Contains(brand_lower, "650")
            THEN "Dolo-650"
       ELSE IF brand_lower \in {"o2", "o 2", "02"} THEN "O2"
       ELSE brand

correct_brand(brand) == correct_lowered(brand, strip(lower(brand)))

detect_brand(brand, text_lower) ==
    IF Contains(text_lower, "bifilac") THEN "BIFILAC"
    ELSE IF Contains(text_lower, "rabemi") /\ Contains(text_lower, "dsr") THEN "RABEMI-DSR"
    ELSE IF Contains(text_lower, "dolo") /\ Contains(text_lower, "650") THEN "Dolo-650"
    ELSE IF Contains(text_lower, "ofloxacin") /\ Contains(text_lower, "ornidazole")
         THEN "O2"
    ELSE IF Contains(text_lower, "paracetamol") /\ Contains(text_lower, "650")
         THEN "Dolo-650"
    ELSE IF Contains(text_lower, "rabeprazole") /\ Contains(text_lower, "domperidone")
         THEN "RABEMI-DSR"
    ELSE brand

\* the loop over manufacturer_corrections.items(): the first key found wins
correct_mfr_lowered(manufacturer, mfr_lower) ==
    LET hit == {k \in 1..Len(manufacturer_corrections) :
                   Contains(mfr_lower, manufacturer_corrections[k][1])}
    IN IF hit = {} THEN manufacturer
       ELSE manufacturer_corrections[CHOOSE k \in hit : \A j \in hit : k <= j][2]

correct_manufacturer(manufacturer) ==
    correct_mfr_lowered(manufacturer, strip(lower(manufacturer)))

detect_manufacturer(manufacturer, text_lower) ==
    IF Contains(text_lower, "toa") /\ Contains(text_lower, "pharma")
    THEN "TOA Pharmaceuticals"
    ELSE IF Contains(text_lower, "meyer") THEN "Meyer Organics"
    ELSE IF Contains(text_lower, "micro labs") \/ Contains(text_lower, "microlabs")
         THEN "Micro Labs"
    ELSE IF Contains(text_lower, "paalmi") THEN "Paalmi Pharmaceuticals"
    ELSE IF Contains(text_lower, "renewed life") THEN "Renewed Life Sciences"
    ELSE manufacturer

\* r'(\d+)\s*(mg|mcg|g|ml)' with re.IGNORECASE
RE_dose ==
    <<Grp(1, <<Plus(<<In(Digit)>>)>>), Star(<<In(Space)>>),
      Grp(2, <<Alt(<<CI("mg"), CI("mcg"), CI("g"), CI("ml")>>)>>)>>

\* re.sub(RE_dose, r'\1 \2', s) from position i on
RECURSIVE sub_dose_from(_, _)
RECURSIVE sub_dose_at(_, _, _)
sub_dose_from(s, i) == sub_dose_at(s, i, SearchFrom(RE_dose, s, i))
\* s from i on, where m is the next match
sub_dose_at(s, i, m) ==
    IF m = Fail THEN SubSeq(s, i, Len(s))
    ELSE SubSeq(s, i, m[1] - 1) \o Group(s, m, 1) \o " " \o Group(s, m, 2)
           \o sub_dose_from(s, m[2])

\* brand_from_text gone wrong: the text is searched for a brand that is there
brand_from_text_always(brand, full_text) ==
    IF Truthy(full_text) THEN detect_brand(brand, lower(full_text)) ELSE brand

\* The fields post_process_extracted_data can change; batch, mfd_date, exp_date and
\* mrp_str are returned as passed.
\* `if not brand and full_text:` and `if not manufacturer and full_text:`
brand_from_text(brand, full_text) ==
    IF ~Truthy(brand) /\ Truthy(full_text) THEN detect_brand(brand, lower(full_text))
    ELSE brand
manufacturer_from_text(manufacturer, full_text) ==
    IF ~Truthy(manufacturer) /\ Truthy(full_text)
    THEN detect_manufacturer(manufacturer, lower(full_text)) ELSE manufacturer

post_process_extracted_data(brand, dosage, manufacturer, full_text) ==
    [brand |-> brand_from_text(IF Truthy(brand) THEN correct_brand(brand) ELSE brand,
                               full_text),
     dosage |-> IF Truthy(dosage) THEN sub_dose_from(strip(dosage), 1) ELSE dosage,
     manufacturer |-> manufacturer_from_text(IF Truthy(manufacturer)
                                             THEN correct_manufacturer(manufacturer)
                                             ELSE manufacturer, full_text)]

\* `return brand, dosage, batch, mfd_date, exp_date, manufacturer, mrp_str`: the
\* seven values post_process_extracted_data returns for its eight arguments
post_process_returned(brand, dosage, batch, mfd_date, exp_date, manufacturer, mrp_str, full_text) ==
    [brand |-> post_process_extracted_data(brand, dosage, manufacturer, full_text).brand,
     dosage |-> post_process_extracted_data(brand, dosage, manufacturer, full_text).dosage,
     batch |-> batch,
     mfd_date |-> mfd_date,
     exp_date |-> exp_date,
     manufacturer |->
         post_process_extracted_data(brand, dosage, manufacturer, full_text).manufacturer,
     mrp_str |-> mrp_str]

\* ------------------------------------------------------------------------
\* index: the fallback batch patterns and the price
\* ------------------------------------------------------------------------
\* r"(?i)B\.?\s*No\.?\s*[:#.\-]?\s*([A-Z]?\d{4,}[A-Z0-9]*)"
RE_batch_fb_1 ==
    CI("B") \o <<Opt(CS(".")), Star(<<In(Space)>>)>> \o CI("No") \o <<Opt(CS(".")),
      Star(<<In(Space)>>), Opt(<<In({":", "#", ".", "-"})>>), Star(<<In(Space)>>),
      Grp(1, <<Opt(<<In(Alpha)>>), Rep(4, -1, <<In(Digit)>>), Star(<<In(Alnum)>>)>>)>>
\* r"(?i)Batch\s*[:#.\-]?\s*([A-Z]?\d{4,}[A-Z0-9]*)"
RE_batch_fb_2 ==
    CI("Batch") \o <<Star(<<In(Space)>>), Opt(<<In({":", "#", ".", "-"})>>),
      Star(<<In(Space)>>), Grp(1, <<Opt(<<In(Alpha)>>), Rep(4, -1, <<In(Digit)>>),
      Star(<<In(Alnum)>>)>>)>>
\* r"\b([A-Z]\d{5,})\b"
RE_batch_fb_3 ==
    <<WB, Grp(1, <<In(Upper), Rep(5, -1, <<In(Digit)>>)>>), WB>>
\* r'(\d{6,})'
RE_batch_fb_4 ==
    <<Grp(1, <<Rep(6, -1, <<In(Digit)>>)>>)>>
batch_patterns == <<RE_batch_fb_1, RE_batch_fb_2, RE_batch_fb_3, RE_batch_fb_4>>

\* the loop over batch_patterns from pattern k on: the batch it assigns
\* `if m: batch = m.group(1); break`, and otherwise what the rest of the loop gives
batch_or(text, m, otherwise) == IF m # Fail THEN Group(text, m, 1) ELSE otherwise

RECURSIVE fallback_batch_from(_, _, _)
fallback_batch_from(batch, text, k) ==
    IF k > Len(batch_patterns) THEN batch
    ELSE batch_or(text, Search(batch_patterns[k], text),
                  fallback_batch_from(batch, text, k + 1))

fallback_batch(batch, full_text) ==
    IF ~Truthy(batch) \/ batch = NotAvailable
    THEN fallback_batch_from(batch, IF Truthy(full_text) THEN full_text ELSE "", 1)
    ELSE batch

\* s.replace(',', '')
RECURSIVE drop_commas(_)
drop_commas(s) == IF Len(s) = 0 THEN ""
                  ELSE IF Len(s) = 1 THEN (IF s = "," THEN "" ELSE s)
                  ELSE drop_commas(SubSeq(s, 1, Len(s) \div 2))
                         \o drop_commas(SubSeq(s, Len(s) \div 2 + 1, Len(s)))

\* float(s) of digits with at most two decimals, as a number of hundredths
hundredths(frac) == IF Len(frac) = 1 THEN 10 * int(frac) ELSE int(frac)
float100_at(s, dot) ==
    IF dot = Fail THEN 100 * int(s)
    ELSE 100 * int(SubSeq(s, 1, dot[1] - 1)) + hundredths(SubSeq(s, dot[1] + 1, Len(s)))
float100(s) == float100_at(s, Search(CS("."), s))

\* mrp_val of index and of save_ocr before the last-price fallback, in hundredths
price_of(mrp_str, m) ==
    IF Truthy(mrp_str) /\ m # Fail THEN float100(drop_commas(Group(mrp_str, m, 1))) ELSE 0
parse_mrp(mrp_str) == price_of(mrp_str, Search(RE_number, mrp_str))

\* ------------------------------------------------------------------------
\* parse_date_from_gemini
\* ------------------------------------------------------------------------
\* r"(?i)(jan|feb|mar|apr|may|jun|jul|aug|sep|sept|oct|nov|dec)"
RE_gem_month == <<Grp(1, <<RE_MonthAlt>>)>>
\* r"(\d{2,4})"
RE_gem_year == <<Grp(1, <<Rep(2, 4, <<In(Digit)>>)>>)>>

\* `if dt: return dt`, and otherwise what follows
date_or(dt, otherwise) == IF dt # NoDate THEN dt ELSE otherwise

\* the fallback of parse_date_from_gemini: m is the month found in s, y the year
gemini_month_year(s, m, y, now) ==
    IF m # Fail /\ y # Fail /\ valid_year(fix_year(int(Group(s, y, 1))), now)
    THEN MkDate(fix_year(int(Group(s, y, 1))),
                month_map_get(SubSeq(lower(Group(s, m, 1)), 1, 3)), 1)
    ELSE NoDate

gemini_stripped(s, now) ==
    IF s = "" \/ lower(s) \in {"n/a", "na", "", "information not available"} THEN NoDate
    ELSE date_or(parse_date_flexible(s, now),
                 gemini_month_year(s, Search(RE_gem_month, s), Search(RE_gem_year, s), now))

parse_date_from_gemini(date_str, now) ==
    IF ~Truthy(date_str) THEN NoDate ELSE gemini_stripped(strip(date_str), now)

\* ------------------------------------------------------------------------
\* find_labeled_date_dt
\* ------------------------------------------------------------------------
\* _compile_date_regex(): r"\b({month}|{mmYY}|{year})\b" with re.IGNORECASE, where
\* month = r"(Jan|...|Dec)[a-z]*\.?\s+\d{2,4}", mmYY = r"\d{1,2}[./-]\d{2,4}" and
\* year = r"(?:19|20)\d{2}"
DATE_TOKEN_RE ==
    <<WB, Grp(1, <<Alt(<<
        <<Grp(2, <<RE_MonthAlt>>), Star(<<In(Alpha)>>), Opt(CS(".")),
          Plus(<<In(Space)>>), Rep(2, 4, <<In(Digit)>>)>>,
        <<Rep(1, 2, <<In(Digit)>>), In({".", "/", "-"}), Rep(2, 4, <<In(Digit)>>)>>,
        <<Alt(<<CS("19"), CS("20")>>), Rep(2, 2, <<In(Digit)>>)>> >>)>>), WB>>
\* mon_re: r"(Jan|...|Dec)[a-z]*\.?\b", case-insensitive
RE_mon == <<Grp(1, <<RE_MonthAlt>>), Star(<<In(Alpha)>>), Opt(CS(".")), WB>>
\* yr_re: r"\b(?:19|20)\d{2}\b"
RE_yr == <<WB, Alt(<<CS("19"), CS("20")>>), Rep(2, 2, <<In(Digit)>>), WB>>

\* the nested loops over mons and yrs, from pair (a, b) on
RECURSIVE combine_from(_, _, _, _, _, _)
combine_from(scope, mons, yrs, a, b, now) ==
    IF a > Len(mons) THEN NoDate
    ELSE IF b > Len(yrs) THEN combine_from(scope, mons, yrs, a + 1, 1, now)
    ELSE IF yrs[b][1] >= mons[a][2] /\ yrs[b][1] - mons[a][2] <= 12
    THEN date_or(parse_date_flexible(SubSeq(scope, mons[a][1], yrs[b][2] - 1), now),
                 combine_from(scope, mons, yrs, a, b + 1, now))
    ELSE combine_from(scope, mons, yrs, a, b + 1, now)

\* the date found in a scope (a line with its successor, or a window): the date
\* token first, then a month token combined with a year token
token_date(scope, m, now) ==
    IF m # Fail THEN parse_date_flexible(Group0(scope, m), now) ELSE NoDate
combined_date(scope, mons, yrs, now) ==
    IF mons # <<>> /\ yrs # <<>> THEN combine_from(scope, mons, yrs, 1, 1, now) ELSE NoDate
date_in_scope(scope, now) ==
    date_or(token_date(scope, Search(DATE_TOKEN_RE, scope), now),
            combined_date(scope, FindIter(RE_mon, scope, 1), FindIter(RE_yr, scope, 1), now))

HasKeyword(low, kws) == \E k \in 1..Len(kws) : Contains(low, kws[k])

\* a line that holds a keyword and is not about a licence
labeled_line(low, kws) ==
    HasKeyword(low, kws) /\ ~(Contains(low, "lic") \/ Contains(low, "license"))

\* the loop over the lines, from line i on
RECURSIVE labeled_in_lines(_, _, _, _)
labeled_in_lines(lines, kws, i, now) ==
    IF i > Len(lines) THEN NoDate
    ELSE IF labeled_line(lower(lines[i]), kws)
    THEN date_or(date_in_scope(IF i + 1 <= Len(lines) THEN lines[i] \o " " \o lines[i + 1]
                               ELSE lines[i], now),
                 labeled_in_lines(lines, kws, i + 1, now))
    ELSE labeled_in_lines(lines, kws, i + 1, now)

\* low_text.find(k), counted from 1; 0 when k does not occur
start_or_0(m) == IF m = Fail THEN 0 ELSE m[1]
find(hay, needle) == start_or_0(Search(CS(needle), hay))

\* the date in window = text[idx : idx + 120], for idx counted from 1
window_date(text, idx, now) ==
    IF idx # 0
    THEN date_in_scope(SubSeq(text, idx, IF idx + 119 < Len(text) THEN idx + 119
                                         ELSE Len(text)), now)
    ELSE NoDate

\* the fallback loop over the keywords, from keyword j on
RECURSIVE labeled_in_windows(_, _, _, _)
labeled_in_windows(text, kws, j, now) ==
    IF j > Len(kws) THEN NoDate
    ELSE date_or(window_date(text, find(lower(text), kws[j]), now),
                 labeled_in_windows(text, kws, j + 1, now))

\* find_labeled_date_dt for kws = [k.lower() for k in keywords]
labeled_date(text, kws, now) ==
    date_or(labeled_in_lines(splitlines(text), kws, 1, now),
            labeled_in_windows(text, kws, 1, now))

find_labeled_date_dt(text, keywords, now) ==
    IF text = "" THEN NoDate
    ELSE labeled_date(text, [k \in 1..Len(keywords) |-> lower(keywords[k])], now)

mfd_keywords == <<"mfg", "mfg.", "mfd", "manufactured", "mfg.dt", "mfg dt">>
exp_keywords == <<"exp", "exp.", "expiry", "use before", "best before", "exp.dt", "exp dt">>

\* ------------------------------------------------------------------------
\* Values of the handlers
\* ------------------------------------------------------------------------
\* str(n) for n >= 0
RECURSIVE str_of(_)
str_of(n) == IF n < 10 THEN SubSeq(DigitStr, n + 1, n + 1)
             ELSE str_of(n \div 10) \o SubSeq(DigitStr, (n % 10) + 1, (n % 10) + 1)

\* d.strftime("%b %Y")
strftime_bY(d) ==
    ToUpper[SubSeq(MonthAbbr[d[2]], 1, 1)] \o SubSeq(MonthAbbr[d[2]], 2, 3)
      \o " " \o str_of(d[1])

\* f"{mrp_val:.2f}" of a price in hundredths
format_2f(p) ==
    str_of(p \div 100) \o "." \o str_of((p % 100) \div 10) \o str_of(p % 10)

\* `x or "N/A"`
OrNA(x) == IF Truthy(x) THEN x ELSE "N/A"

\* A dict returned by the generative model holds a str (or None) under each of the
\* seven keys of the prompt; NoDict is the result None of the extractors.
NoDict == [ok |-> FALSE]
Dict(brand, dosage, batch_number, manufacture_date, expiry_date, manufacturer, mrp) ==
    [ok |-> TRUE, brand |-> brand, dosage |-> dosage, batch_number |-> batch_number,
     manufacture_date |-> manufacture_date, expiry_date |-> expiry_date,
     manufacturer |-> manufacturer, mrp |-> mrp]

\* the local variables brand .. mrp_str of index
FieldNames == {"brand", "dosage", "batch", "mfd_date", "exp_date", "manufacturer",
               "mrp_str"}
NoFields == [n \in FieldNames |-> Null]

\* a row of class Medicine
Medicine(batch_id, medicine_name, brand, batch_number, price_per_unit, manufacture_date, expiry_date) ==
    [batch_id |-> batch_id, medicine_name |-> medicine_name, brand |-> brand,
     category |-> "N/A", batch_number |-> batch_number, quantity |-> 0,
     price_per_unit |-> price_per_unit, manufacture_date |-> manufacture_date,
     expiry_date |-> expiry_date]

\* Medicine.query.filter(Medicine.medicine_name.ilike(brand))
\*   .order_by(Medicine.batch_id.desc()).first(), as an index of rows or 0; the
\* modelled brands hold no LIKE wildcard, so ilike is equality ignoring case
last_of_brand(rows, brand) ==
    LET hit == {k \in 1..Len(rows) : lower(rows[k].medicine_name) = lower(brand)}
    IN IF hit = {} THEN 0 ELSE CHOOSE k \in hit : \A j \in hit : j <= k

\* Medicine.query.filter(Medicine.batch_number == batch_number).first()
first_of_batch(rows, batch_number) ==
    LET hit == {k \in 1..Len(rows) : rows[k].batch_number = batch_number}
    IN IF hit = {} THEN 0 ELSE CHOOSE k \in hit : \A j \in hit : k <= j

\* ------------------------------------------------------------------------
\* index, pass by pass
\* ------------------------------------------------------------------------
\* METHOD 1: the fields index takes from the dict of the direct-image extraction
\* `if extracted_brand and is_valid_brand(extracted_brand): brand = extracted_brand`
direct_brand(extracted_brand) ==
    IF Truthy(extracted_brand) /\ is_valid_brand(extracted_brand) THEN extracted_brand
    ELSE Null

direct_fields(gem_direct) ==
    [brand |-> direct_brand(clean_extracted_value(gem_direct.brand, "brand")),
     dosage |-> clean_extracted_value(gem_direct.dosage, "text"),
     batch |-> clean_extracted_value(gem_direct.batch_number, "batch"),
     mfd_date |-> clean_extracted_value(gem_direct.manufacture_date, "date"),
     exp_date |-> clean_extracted_value(gem_direct.expiry_date, "date"),
     manufacturer |-> clean_extracted_value(gem_direct.manufacturer, "text"),
     mrp_str |-> clean_extracted_value(gem_direct.mrp, "mrp")]

\* fill gone wrong: the value found replaces the one held
fill_always(cur, found) == found

\* `if not x: x = found`
fill(cur, found) == IF ~Truthy(cur) THEN found ELSE cur

\* the brand of the regex pass
brand_if_valid(b) == IF is_valid_brand(b) THEN b ELSE Null
regex_brand(full_text) == brand_if_valid(find_first_match(full_text, PATTERNS_brand_name))

\* METHOD 2: the fields after the regex pass over the normalised OCR text
regex_fields(f, full_text) ==
    [brand |-> IF ~Truthy(f.brand) THEN regex_brand(full_text) ELSE f.brand,
     dosage |-> fill(f.dosage, find_first_match(full_text, PATTERNS_dosage)),
     batch |-> fill(f.batch, find_first_match(full_text, PATTERNS_batch_number)),
     mfd_date |-> fill(f.mfd_date, find_first_match(full_text, PATTERNS_mfd)),
     exp_date |-> fill(f.exp_date, find_first_match(full_text, PATTERNS_expiry)),
     manufacturer |-> fill(f.manufacturer,
                           find_first_match(full_text, PATTERNS_manufacturer)),
     mrp_str |-> fill(f.mrp_str, find_first_match(full_text, PATTERNS_mrp))]

\* `if not brand or not batch or not mfd_date or not exp_date`
needs_text_model(f) ==
    ~Truthy(f.brand) \/ ~Truthy(f.batch) \/ ~Truthy(f.mfd_date) \/ ~Truthy(f.exp_date)

\* `if not x and gem_fields.get(k): x = gem_fields.get(k, '').strip()`
fill_from(cur, got) == IF ~Truthy(cur) /\ Truthy(got) THEN strip(got) ELSE cur

\* METHOD 3: the fields after the pass over the dict of the text extraction
text_model_fields(f, gem_fields) ==
    [brand |-> IF ~Truthy(f.brand) /\ is_valid_brand(gem_fields.brand)
               THEN strip(gem_fields.brand) ELSE f.brand,
     dosage |-> fill_from(f.dosage, gem_fields.dosage),
     batch |-> fill_from(f.batch, gem_fields.batch_number),
     mfd_date |-> fill_from(f.mfd_date, gem_fields.manufacture_date),
     exp_date |-> fill_from(f.exp_date, gem_fields.expiry_date),
     manufacturer |-> fill_from(f.manufacturer, gem_fields.manufacturer),
     mrp_str |-> fill_from(f.mrp_str, gem_fields.mrp)]

\* ensure_order gone wrong: the final swap is left out
keep_order(mfd_dt, exp_dt) == <<mfd_dt, exp_dt>>

\* `if exp_dt and mfd_dt and exp_dt < mfd_dt: mfd_dt, exp_dt = exp_dt, mfd_dt`
ensure_order(mfd_dt, exp_dt) ==
    IF exp_dt # NoDate /\ mfd_dt # NoDate /\ DateLT(exp_dt, mfd_dt)
    THEN <<exp_dt, mfd_dt>> ELSE <<mfd_dt, exp_dt>>

\* the dates index stores: parsed from the extracted strings, else found near a
\* label, reconciled with the text when there is one, defaulted, and ordered
\* the last two steps: `if not exp_dt: exp_dt = add_months(mfd_dt, 24)` and the swap
dates_ordered(mfd_dt, exp_dt) ==
    ensure_order(mfd_dt, IF exp_dt = NoDate THEN add_months(mfd_dt, 24) ELSE exp_dt)

\* `if not mfd_dt: mfd_dt = datetime.utcnow().date()`, for the reconciled pair r
dates_defaulted(r, now) == dates_ordered(IF r[1] = NoDate THEN now ELSE r[1], r[2])

\* `if full_text: mfd_dt, exp_dt = reconcile_dates_from_text(...)`
dates_reconciled(mfd_dt, exp_dt, full_text, now) ==
    dates_defaulted(IF Truthy(full_text)
                    THEN reconcile_dates_from_text(full_text, mfd_dt, exp_dt, now)
                    ELSE <<mfd_dt, exp_dt>>, now)

\* `if not mfd_dt: mfd_dt = find_labeled_date_dt(full_text or "", [...])`, and the
\* same for exp_dt
dates_labeled(mfd_dt, exp_dt, full_text, now) ==
    dates_reconciled(date_or(mfd_dt, find_labeled_date_dt(IF Truthy(full_text) THEN full_text
                                                          ELSE "", mfd_keywords, now)),
                     date_or(exp_dt, find_labeled_date_dt(IF Truthy(full_text) THEN full_text
                                                          ELSE "", exp_keywords, now)),
                     full_text, now)

\* `parse_date_from_gemini(x) if x and x != "Information not available" else None`
extracted_date(x, now) ==
    IF Truthy(x) /\ x # NotAvailable THEN parse_date_from_gemini(x, now) ELSE NoDate

index_dates(f, full_text, now) ==
    dates_labeled(extracted_date(f.mfd_date, now), extracted_date(f.exp_date, now),
                  full_text, now)

\* `if not full_text and not brand`: the analysis ends with the error message
no_text_error(f, full_text) == ~Truthy(full_text) /\ ~Truthy(f.brand)

\* ------------------------------------------------------------------------
\* State
\* ------------------------------------------------------------------------
VARIABLES
    now,        \* datetime.utcnow().date(), fixed for the run
    MEDICINE_INFO, \* the module's dict MEDICINE_INFO: the dict of each medicine
    phase,      \* "boot" while the module is imported, then "up" or "failed"
    cfg,        \* TESSERACT_AVAILABLE, GEMINI_AVAILABLE, the GEMINI_API_KEY variable
    db,         \* the rows of table Medicine, by batch_id
    inserted,   \* how many rows the process has inserted
    pc,         \* where the request being served is
    f,          \* index: the locals brand .. mrp_str
    hist,       \* index: f as it was before the first pass and after each pass run
    calls,      \* ocr_extract_text: the backends called so far, with what they gave
    ocr_text,   \* the value ocr_extract_text returned
    full_text,  \* index: the local full_text
    gem_fields, \* index: what extract_fields_with_gemini_from_text gave
    ext,        \* index: the last call of a model-assisted field extractor
    out,        \* the response of the last request
    rec,        \* the last call of reconcile_dates_from_text made on its own
    parsed,     \* the last call of parse_date_flexible made on its own
    applied     \* the last call of find_first_match or clean_extracted_value made
                \* on its own

vars == <<now, phase, cfg, MEDICINE_INFO, db, inserted, pc, f, hist, calls, ocr_text,
          full_text, gem_fields, ext, out, rec, parsed, applied>>
reqVars == <<f, hist, calls, ocr_text, full_text, gem_fields, ext>>

\* ------------------------------------------------------------------------
\* Inputs
\* ------------------------------------------------------------------------
\* the rows a run may insert
MaxInserts == 1

\* the day the process runs, and the days the date functions are called on
Today == <<2026, 11, 4>>
Clocks == {Today, <<2049, 6, 15>>}

LabelText == "BIFILAC\nB.No. ALA306\nMFG. 10/2023 EXP. 09/2025\nM.R.P. Rs. 140.00"
PoorText == "keep away\nEXP 01/24 MFG 12/26"
Texts == {LabelText, PoorText}

\* what the local engine and the generative model give as text: None, or a text
\* that is stripped and not empty
TextOutcomes == {Null} \cup Texts
\* what text_detection gives: an exception, one that names disabled billing, no
\* annotation, or annotations whose first description is any str
CloudOutcomes ==
    {[k |-> "raise"], [k |-> "billing"], [k |-> "empty"]}
      \cup {[k |-> "text", description |-> d] : d \in Texts \cup {"", " "}}

DirectDicts == {
    Dict("O2", "200mg + 500mg", "E40001", "DEC.26", "JAN.24", "Meyer Organics", "35,70"),
    Dict("", "650 mg", "", "", "", NotAvailable, "") }
TextDicts == {
    Dict("Crocin", "500 mg", "B1234", "JAN.24", "DEC.26", "GSK", "20.00") }

\* ------------------------------------------------------------------------
\* The model-assisted field extractors
\* ------------------------------------------------------------------------
\* json.dumps of a dict of the seven keys
dumps(d) ==
    "{\"brand\": \"" \o d.brand \o "\", \"dosage\": \"" \o d.dosage
      \o "\", \"batch_number\": \"" \o d.batch_number
      \o "\", \"manufacture_date\": \"" \o d.manufacture_date
      \o "\", \"expiry_date\": \"" \o d.expiry_date
      \o "\", \"manufacturer\": \"" \o d.manufacturer
      \o "\", \"mrp\": \"" \o d.mrp \o "\"}"

\* json.loads on the documents the modelled replies hold: a dict, a value that is
\* not a dict, or ValueError for a text that is no JSON document
json_loads(text) ==
    IF \E d \in DirectDicts \cup TextDicts : dumps(d) = text
    THEN [k |-> "dict", d |-> CHOOSE d \in DirectDicts \cup TextDicts : dumps(d) = text]
    ELSE IF text \in {"[1, 2]", "null", "12"} THEN [k |-> "other"]
    ELSE [k |-> "error"]

\* What generate_content gives: it raises, or it returns a response whose text is
\* a str or None.  NoReply stands where the model is not called.
NoReply == [k |-> "none"]
ImageReplies == {
    [k |-> "raise"],
    [k |-> "text", text |-> "~~~json\n" \o dumps(Dict("O2", "200mg + 500mg", "E40001",
                              "DEC.26", "JAN.24", "Meyer Organics", "35,70")) \o "\n~~~"],
    [k |-> "text", text |-> "Here is the JSON: "
                              \o dumps(Dict("", "650 mg", "", "", "", NotAvailable, ""))
                              \o " as asked."],
    [k |-> "text", text |-> "[1, 2]"],
    [k |-> "text", text |-> "{brand: O2}"] }
TextReplies == {
    [k |-> "raise"],
    [k |-> "text", text |-> dumps(Dict("Crocin", "500 mg", "B1234", "JAN.24", "DEC.26",
                                       "GSK", "20.00"))],
    [k |-> "text", text |-> "I cannot read the strip."],
    [k |-> "text", text |-> Null] }

\* an exception leaving a function, where a dict or None is expected
Raised == [ok |-> FALSE, raised |-> TRUE]

\* no extractor was called yet
NoCall == [fn |-> "none"]

\* (resp.text or '').strip(), then the text without its code fences,
\* text.replace(FENCE + 'json', '').replace(FENCE, '').strip(), FENCE being three
\* grave accents.  A TLA+ string cannot hold a grave accent: the tilde stands for
\* it, in the replies and here.
unfenced(text) ==
    strip(re_sub(CS("~~~"), "", re_sub(CS("~~~json"), "", strip(IF Truthy(text) THEN text
                                                                 ELSE ""))))

\* r"\{[\s\S]*\}"
RE_braces == <<In({"{"}), Star(<<Dot>>), In({"}"})>>

\* `data = _json.loads(...); if isinstance(data, dict): return data`, v being what
\* loads gave, and None when this falls through
dict_or_none(v) == IF v.k = "dict" THEN v.d ELSE NoDict

\* the except branch: `m = _re.search(r"\{[\s\S]*\}", text); if m: ...`
braces_or_none(text, m) ==
    IF m # Fail THEN dict_or_none(json_loads(Group0(text, m))) ELSE NoDict

\* the parsing of the cleaned text, v being what the first loads gave: the except
\* branch runs only when loads raised
parse_reply(text, v) ==
    IF v.k = "error" THEN braces_or_none(text, Search(RE_braces, text))
    ELSE dict_or_none(v)

\* the body of an extractor from the call of the model on
call_model(reply) ==
    IF reply.k = "raise" THEN Raised
    ELSE parse_reply(unfenced(reply.text), json_loads(unfenced(reply.text)))

\* except_none gone wrong: the exception leaves the function
except_reraise(v) == v

\* `try: ... except Exception as e: logger.error(...); return None`
except_none(v) == IF v = Raised THEN NoDict ELSE v

\* flags are GEMINI_AVAILABLE and the presence of a key
gemini_extract_fields_from_image(flags, reply) ==
    except_none(IF ~flags.gemini THEN NoDict
                ELSE IF ~flags.key THEN NoDict
                ELSE call_model(reply))

extract_fields_with_gemini_from_text(flags, reply) ==
    except_none(IF ~flags.gemini THEN NoDict
                ELSE IF ~flags.key THEN NoDict
                ELSE call_model(reply))

\* ------------------------------------------------------------------------
\* MEDICINE_INFO and /api/medicine-info
\* ------------------------------------------------------------------------
\* MEDICINE_INFO as the module body builds it: its first two entries
MedicineInfoTable ==
    [name \in {"Augmentin", "Avil"} |->
        IF name = "Augmentin"
        THEN [uses |-> "Bacterial infections", side_effects |-> "Diarrhea, Rash",
              dosage |-> "As directed by physician"]
        ELSE [uses |-> "Allergy, Cold", side_effects |-> "Drowsiness, Dry mouth",
              dosage |-> "1 tablet twice daily"]]

\* the queries of /api/medicine-info
Queries == {"", "augmentin", "Zyx"}

\* the loop `for name, info in MEDICINE_INFO.items(): if name.lower() ==
\* medicine_name.lower(): ...; break`: the name found, or "" when there is none
found_name(table, medicine_name) ==
    IF \E n \in DOMAIN table : lower(n) = lower(medicine_name)
    THEN CHOOSE n \in DOMAIN table : lower(n) = lower(medicine_name)
    ELSE ""

\* `found_medicine = info; found_medicine['name'] = name`: info is the dict the
\* table holds, and the assignment adds the key to it
with_name(info, name) ==
    [k \in DOMAIN info \cup {"name"} |-> IF k = "name" THEN name ELSE info[k]]

\* the table after the loop
table_after(table, name) ==
    IF name = "" THEN table ELSE [table EXCEPT ![name] = with_name(@, name)]

\* the form of save_ocr: brand, batch, mrp, mfd_date, exp_date
Forms == {
    [brand |-> "", batch |-> "", mrp |-> "", mfd_date |-> "", exp_date |-> ""],
    [brand |-> "BIFILAC", batch |-> "ALA306", mrp |-> "35,70", mfd_date |-> "DEC.26",
     exp_date |-> "JAN.24"],
    [brand |-> "O2", batch |-> "E40001", mrp |-> "", mfd_date |-> "JAN.24",
     exp_date |-> ""] }

\* the table when the process starts: empty, or holding a row of an earlier run
StoredRow == Medicine(1, "BIFILAC", "BIFILAC", "ALA306", 14000, <<2023, 10, 1>>,
                      <<2025, 9, 1>>)
StartTables == {<<>>, <<StoredRow>>}

DateTexts == {"", "Mfg Lic No 2012\nEXP DEC.26", "shelf life 24 months",
              "06/2022 06/2025", "x 12-2050 y", "Jun 2025", "Jun 2022 Jun 2025",
              "shelf life 0 months", "shelf life 24 months EXP 06/2027"}
Dates == {NoDate, <<2026, 1, 1>>, <<2023, 1, 1>>, <<2024, 1, 31>>, <<2046, 12, 1>>,
          <<2024, 1, 1>>}

\* the date strings the two parsers are given on their own: one or more for each
\* rule, with years inside and outside the range
DateStrings == {"DEC.26", "10/2023", "2024", "24", "1995", "1995 24", "13/2024",
                "12-2050", "Jan 1985", "Mar 85", "JAN.69", "2080", "2024mar", "1985mar",
                "15.01.2024", "n/a", "x", ""}

\* the dates and the numbers of months add_months is given on its own: months that
\* stay in the year, cross one or several years in either direction, and leave
\* the years datetime has
MonthDates == {NoDate, <<2024, 1, 31>>, <<2024, 2, 29>>, <<2023, 12, 1>>, <<1990, 1, 15>>,
               <<2046, 7, 28>>}
MonthCounts == {-24277, -24276, -99, -25, -24, -13, -12, -11, -1, 0, 1, 11, 12, 13, 24,
                25, 99, 95711, 96000}

\* (y, m) written as the month's three letters, a period and the year's last two
\* digits: 'JAN.24'
MMM_YY(y, m) ==
    LET yy == y % 100
        ab == MonthAbbr[m]
    IN ToUpper[SubSeq(ab, 1, 1)] \o ToUpper[SubSeq(ab, 2, 2)] \o ToUpper[SubSeq(ab, 3, 3)]
         \o "." \o str_of(yy \div 10) \o str_of(yy % 10)

\* ------------------------------------------------------------------------
\* Initial states
\* ------------------------------------------------------------------------
Idle ==
    /\ pc = "idle"
    /\ f = NoFields
    /\ hist = <<>>
    /\ calls = <<>>
    /\ ocr_text = Null
    /\ full_text = ""
    /\ gem_fields = NoDict
    /\ ext = NoCall
    /\ out = [kind |-> "none"]
    /\ rec = [done |-> FALSE]
    /\ parsed = [done |-> FALSE]
    /\ applied = [fn |-> "none"]
    /\ MEDICINE_INFO = MedicineInfoTable

\* the process as it is launched
Init ==
    /\ now = Today
    /\ phase = "boot"
    /\ cfg = [tesseract |-> FALSE, gemini |-> FALSE, key |-> FALSE]
    /\ db \in StartTables
    /\ inserted = 0
    /\ Idle

\* the date functions called on their own
InitDates ==
    /\ now \in Clocks
    /\ phase = "up"
    /\ cfg = [tesseract |-> FALSE, gemini |-> FALSE, key |-> FALSE]
    /\ db = <<>>
    /\ inserted = 0
    /\ Idle

\* ------------------------------------------------------------------------
\* Startup
\* ------------------------------------------------------------------------
\* The module body: the availability flags are set by guarded imports, and the
\* Vision client is built from vision-key.json; when that file is missing the
\* except clause logs and re-raises, and the import of app.py fails.
Startup ==
    /\ phase = "boot"
    /\ \E tesseract \in BOOLEAN, gemini \in BOOLEAN, key \in BOOLEAN,
          vision_key \in BOOLEAN :
          /\ cfg' = [tesseract |-> tesseract, gemini |-> gemini, key |-> key]
          /\ phase' = IF vision_key THEN "up" ELSE "failed"
    /\ UNCHANGED <<now, db, inserted, MEDICINE_INFO, pc, reqVars, out, rec, parsed,
                   applied>>

\* gemini_key_present, and the test the two field extractors make
gemini_usable == cfg.gemini /\ cfg.key

\* ------------------------------------------------------------------------
\* index
\* ------------------------------------------------------------------------
\* POST /index up to the first extraction: a request without a readable image is
\* answered with an error message at once
IndexStart ==
    /\ phase = "up"
    /\ pc \in {"idle", "done"}
    /\ inserted < MaxInserts
    /\ \E has_image \in BOOLEAN :
          IF has_image
          THEN /\ pc' = "direct"
               /\ out' = [kind |-> "none"]
          ELSE /\ pc' = "done"
               /\ out' = [kind |-> "rejected"]
    /\ f' = NoFields
    /\ hist' = <<NoFields>>
    /\ calls' = <<>>
    /\ ocr_text' = Null
    /\ full_text' = ""
    /\ gem_fields' = NoDict
    /\ ext' = NoCall
    /\ UNCHANGED <<now, phase, cfg, MEDICINE_INFO, db, inserted, rec, parsed, applied>>

\* `except Exception as e:` around the body of index: the error message
IndexFails ==
    /\ out' = [kind |-> "failed"]
    /\ pc' = "done"

\* METHOD 1 for what gemini_extract_fields_from_image gave
DirectWith(reply, gem_direct) ==
    /\ ext' = [fn |-> "image", reply |-> reply, result |-> gem_direct]
    /\ IF gem_direct = Raised
       THEN /\ IndexFails
            /\ UNCHANGED <<f, hist>>
       ELSE /\ f' = IF gem_direct.ok THEN direct_fields(gem_direct) ELSE f
            /\ hist' = Append(hist, f')
            /\ pc' = "ocr_local"
            /\ out' = out

\* METHOD 1: gemini_extract_fields_from_image gives None (no library, no key, an
\* error, no JSON object) or a dict
DirectPass ==
    /\ pc = "direct"
    /\ \E reply \in (IF gemini_usable THEN ImageReplies ELSE {NoReply}) :
          DirectWith(reply, gemini_extract_fields_from_image(cfg, reply))
    /\ UNCHANGED <<now, phase, cfg, MEDICINE_INFO, db, inserted, calls, ocr_text, full_text,
                   gem_fields, rec, parsed, applied>>

\* returns_text gone wrong: the cascade goes on after a backend gave text
returns_never(text) == FALSE

\* `if text: return text` after a backend of ocr_extract_text
returns_text(text) == Truthy(text)

\* ocr_extract_text, step 1: tesseract_extract_text when TESSERACT_AVAILABLE
OcrLocal ==
    /\ pc = "ocr_local"
    /\ IF cfg.tesseract
       THEN \E text \in TextOutcomes :
               /\ calls' = Append(calls, [backend |-> "local", text |-> text])
               /\ IF returns_text(text)
                  THEN ocr_text' = text /\ pc' = "ocr_return"
                  ELSE ocr_text' = ocr_text /\ pc' = "ocr_model"
       ELSE /\ pc' = "ocr_model"
            /\ UNCHANGED <<calls, ocr_text>>
    /\ UNCHANGED <<now, phase, cfg, MEDICINE_INFO, db, inserted, f, hist, full_text,
                   gem_fields, ext, out, rec, parsed, applied>>

\* step 2: gemini_extract_text when the library and a key are there
OcrModel ==
    /\ pc = "ocr_model"
    /\ IF gemini_usable
       THEN \E text \in TextOutcomes :
               /\ calls' = Append(calls, [backend |-> "model", text |-> text])
               /\ IF returns_text(text)
                  THEN ocr_text' = text /\ pc' = "ocr_return"
                  ELSE ocr_text' = ocr_text /\ pc' = "ocr_cloud"
       ELSE /\ pc' = "ocr_cloud"
            /\ UNCHANGED <<calls, ocr_text>>
    /\ UNCHANGED <<now, phase, cfg, MEDICINE_INFO, db, inserted, f, hist, full_text,
                   gem_fields, ext, out, rec, parsed, applied>>

\* step 3: text_detection of the Vision client inside try/except; with annotations
\* the first description is returned as it is.  A call that gave no annotation or
\* raised is recorded with text None.
OcrCloud ==
    /\ pc = "ocr_cloud"
    /\ \E r \in CloudOutcomes :
          IF r.k = "text"
          THEN /\ calls' = Append(calls, [backend |-> "cloud", text |-> r.description])
               /\ ocr_text' = r.description
               /\ pc' = "ocr_return"
          ELSE /\ calls' = Append(calls, [backend |-> "cloud", text |-> Null])
               /\ ocr_text' = ocr_text
               /\ pc' = "ocr_model_again"
    /\ UNCHANGED <<now, phase, cfg, MEDICINE_INFO, db, inserted, f, hist, full_text,
                   gem_fields, ext, out, rec, parsed, applied>>

\* step 4: gemini_extract_text once more; None is returned when it gives nothing
OcrModelAgain ==
    /\ pc = "ocr_model_again"
    /\ IF gemini_usable
       THEN \E text \in TextOutcomes :
               /\ calls' = Append(calls, [backend |-> "model", text |-> text])
               /\ ocr_text' = IF returns_text(text) THEN text ELSE Null
       ELSE /\ ocr_text' = Null
            /\ UNCHANGED calls
    /\ pc' = "ocr_return"
    /\ UNCHANGED <<now, phase, cfg, MEDICINE_INFO, db, inserted, f, hist, full_text,
                   gem_fields, ext, out, rec, parsed, applied>>

\* METHOD 2: index receives the text; when there is one it is normalised and the
\* regex pass fills the fields still empty
RegexPass ==
    /\ pc = "ocr_return"
    /\ IF Truthy(ocr_text)
       THEN /\ full_text' = normalize_vertical(ocr_text)
            /\ f' = regex_fields(f, full_text')
            /\ hist' = Append(hist, f')
            /\ pc' = IF needs_text_model(f') THEN "text_model" ELSE "finish"
       ELSE /\ full_text' = ocr_text
            /\ pc' = "finish"
            /\ UNCHANGED <<f, hist>>
    /\ calls' = <<>>
    /\ UNCHANGED <<now, phase, cfg, MEDICINE_INFO, db, inserted, ocr_text, gem_fields, ext,
                   out, rec, parsed, applied>>

\* METHOD 3 for what extract_fields_with_gemini_from_text gave
TextModelWith(reply, fields) ==
    /\ ext' = [fn |-> "text", reply |-> reply, result |-> fields]
    /\ IF fields = Raised
       THEN /\ IndexFails
            /\ UNCHANGED <<f, hist, gem_fields>>
       ELSE /\ gem_fields' = fields
            /\ f' = IF fields.ok THEN text_model_fields(f, fields) ELSE f
            /\ hist' = Append(hist, f')
            /\ pc' = "finish"
            /\ out' = out

\* METHOD 3: extract_fields_with_gemini_from_text gives None or a dict
TextModelPass ==
    /\ pc = "text_model"
    /\ \E reply \in (IF gemini_usable THEN TextReplies ELSE {NoReply}) :
          TextModelWith(reply, extract_fields_with_gemini_from_text(cfg, reply))
    /\ UNCHANGED <<now, phase, cfg, MEDICINE_INFO, db, inserted, calls, ocr_text, full_text,
                   rec, parsed, applied>>

\* `prev.price_per_unit if prev and prev.price_per_unit else None`, prev being row
\* last of rows, or no row when last is 0
price_of_row(rows, last) ==
    IF last # 0 /\ rows[last].price_per_unit # 0 THEN <<rows[last].price_per_unit>>
    ELSE <<>>

\* the price of the last row of the brand, looked up when there is a brand
prev_price_of(rows, brand) ==
    price_of_row(rows, IF Truthy(brand) THEN last_of_brand(rows, brand) ELSE 0)

\* index from the new row on: pp are the post-processed brand, dosage and
\* manufacturer, d the pair of dates
StoreAndAnswer(pp, batch, mrp_val, d) ==
    /\ db' = Append(db, Medicine(Len(db) + 1, OrNA(pp.brand), OrNA(pp.brand), OrNA(batch),
                                 mrp_val, d[1], d[2]))
    /\ inserted' = inserted + 1
    /\ f' = [f EXCEPT !.brand = pp.brand, !.dosage = pp.dosage,
                      !.manufacturer = pp.manufacturer, !.batch = batch]
    /\ out' = [kind |-> "result",
               result |-> [brand |-> OrNA(pp.brand),
                           dosage |-> OrNA(pp.dosage),
                           batch |-> OrNA(batch),
                           mfd_date |-> strftime_bY(d[1]),
                           exp_date |-> strftime_bY(d[2]),
                           manufacturer |-> OrNA(pp.manufacturer),
                           mrp_val |-> format_2f(mrp_val)],
               prev_price |-> prev_price_of(db', pp.brand)]

\* The rest of index: the error message when there is neither text nor brand;
\* otherwise post-processing, the fallback batch, the price, the dates, the new
\* row, the result and the price of the last row of the brand.
Finish ==
    /\ pc = "finish"
    /\ IF no_text_error(f, full_text)
       THEN /\ out' = [kind |-> "error"]
            /\ UNCHANGED <<db, inserted, f>>
       ELSE StoreAndAnswer(post_process_extracted_data(f.brand, f.dosage, f.manufacturer,
                                                       full_text),
                           fallback_batch(f.batch, full_text), parse_mrp(f.mrp_str),
                           index_dates(f, full_text, now))
    /\ pc' = "done"
    /\ UNCHANGED <<now, phase, cfg, MEDICINE_INFO, hist, calls, ocr_text, full_text,
                   gem_fields, ext, rec, parsed, applied>>

\* ------------------------------------------------------------------------
\* save_ocr
\* ------------------------------------------------------------------------
\* the dates save_ocr stores for the two form inputs
\* `if not exp_dt or exp_dt < mfd_dt: exp_dt = add_months(mfd_dt, 12)`
save_expiry(mfd_dt, exp_dt) ==
    <<mfd_dt, IF exp_dt = NoDate \/ DateLT(exp_dt, mfd_dt) THEN add_months(mfd_dt, 12)
              ELSE exp_dt>>

\* `if not mfd_dt: mfd_dt = datetime.utcnow().date()`, for the reconciled pair r
save_defaulted(r, now_) == save_expiry(IF r[1] = NoDate THEN now_ ELSE r[1], r[2])

\* `parse_date_flexible(x) if x else None` of a form input
form_date(x, now_) == IF x # "" THEN parse_date_flexible(x, now_) ELSE NoDate

save_dates(mfd_input, exp_input, now_) ==
    save_defaulted(reconcile_dates_from_text("", form_date(mfd_input, now_),
                                             form_date(exp_input, now_), now_), now_)

\* `if mrp_val == 0: prev = ...; if prev and prev.price_per_unit: mrp_val = ...`
save_price(mrp_val, rows, last) ==
    IF mrp_val = 0 /\ last # 0 /\ rows[last].price_per_unit # 0
    THEN rows[last].price_per_unit ELSE mrp_val

\* save_ocr from the lookup of the batch number on: row k is updated, or, when k
\* is 0, a row is added
SaveRow(brand, batch_number, mrp_val, d, k) ==
    IF k # 0
    THEN /\ db' = [db EXCEPT ![k] = [@ EXCEPT !.medicine_name = brand,
                                              !.brand = brand,
                                              !.batch_number = batch_number,
                                              !.price_per_unit = mrp_val,
                                              !.manufacture_date = d[1],
                                              !.expiry_date = d[2]]]
         /\ out' = [kind |-> "saved"]
         /\ UNCHANGED inserted
    ELSE /\ inserted < MaxInserts
         /\ db' = Append(db, Medicine(Len(db) + 1, brand, brand, batch_number, mrp_val,
                                      d[1], d[2]))
         /\ inserted' = inserted + 1
         /\ out' = [kind |-> "saved"]

\* save_ocr of an owner, for brand and batch_number as read from the form
SaveForm(brand, batch_number, form) ==
    SaveRow(brand, batch_number,
            save_price(parse_mrp(form.mrp), db, last_of_brand(db, brand)),
            save_dates(form.mfd_date, form.exp_date, now),
            IF batch_number # "N/A" THEN first_of_batch(db, batch_number) ELSE 0)

\* POST /save_ocr between analyses: refused unless the session is an owner's;
\* otherwise the row with the form's batch number is updated, or a row is added
SaveOcr ==
    /\ phase = "up"
    /\ pc \in {"idle", "done"}
    /\ \E owner \in BOOLEAN, form \in Forms :
          IF ~owner
          THEN /\ out' = [kind |-> "denied"]
               /\ UNCHANGED <<db, inserted>>
          ELSE SaveForm(OrNA(form.brand), OrNA(form.batch), form)
    /\ pc' = "idle"
    /\ f' = NoFields
    /\ hist' = <<>>
    /\ calls' = <<>>
    /\ ocr_text' = Null
    /\ full_text' = ""
    /\ gem_fields' = NoDict
    /\ ext' = NoCall
    /\ UNCHANGED <<now, phase, cfg, MEDICINE_INFO, rec, parsed, applied>>

\* ------------------------------------------------------------------------
\* /api/medicine-info
\* ------------------------------------------------------------------------
\* POST /api/medicine-info, served at any time once the process is up: 401 without
\* a session, 400 for an empty query, and otherwise the lookup in MEDICINE_INFO
MedicineInfo ==
    /\ phase = "up"
    /\ \E logged_in \in BOOLEAN, query \in Queries :
          MEDICINE_INFO' = IF logged_in /\ strip(query) # ""
                           THEN table_after(MEDICINE_INFO,
                                            found_name(MEDICINE_INFO, strip(query)))
                           ELSE MEDICINE_INFO
    /\ UNCHANGED <<now, phase, cfg, db, inserted, pc, reqVars, out, rec, parsed, applied>>

\* ------------------------------------------------------------------------
\* The date functions called on their own
\* ------------------------------------------------------------------------
Reconcile ==
    /\ pc = "idle"
    /\ \E text \in DateTexts, mfd_dt \in Dates, exp_dt \in Dates :
          rec' = [done |-> TRUE, text |-> text, mfd_dt |-> mfd_dt, exp_dt |-> exp_dt,
                  result |-> reconcile_dates_from_text(text, mfd_dt, exp_dt, now)]
    /\ pc' = "done"
    /\ UNCHANGED <<now, phase, cfg, MEDICINE_INFO, db, inserted, reqVars, out, parsed,
                   applied>>

\* parse_date_flexible is given every month of the years it accepts, written
\* 'JAN.24'
ParseDate ==
    /\ pc = "idle"
    /\ \E y \in 1990..(now[1] + 20), m \in 1..12 :
          parsed' = [done |-> TRUE, y |-> y, m |-> m, date_str |-> MMM_YY(y, m),
                     result |-> parse_date_flexible(MMM_YY(y, m), now)]
    /\ pc' = "done"
    /\ UNCHANGED <<now, phase, cfg, MEDICINE_INFO, db, inserted, reqVars, out, rec,
                   applied>>

\* ------------------------------------------------------------------------
\* tesseract_extract_text: the texts of the image variants and their merge
\* ------------------------------------------------------------------------
\* text.split('\n')
RECURSIVE split_newline(_)
RECURSIVE split_newline_at(_, _)
split_newline(s) == split_newline_at(s, Search(<<In({"\n"})>>, s))
\* the pieces of s, whose first line break is m
split_newline_at(s, m) ==
    IF m = Fail THEN <<s>>
    ELSE <<SubSeq(s, 1, m[1] - 1)>> \o split_newline(SubSeq(s, m[2], Len(s)))

\* The six calls of pytesseract.image_to_string, in the order they are made: the
\* preprocessed image, the original in sparse mode, the automatic rotation, the
\* rotations by 90 and by 270 degrees, and the high-contrast image. A rotated
\* variant is accepted with more than 20 characters, the others with any.
MinChars == <<0, 0, 20, 20, 20, 0>>

\* `if text.strip() and len(text.strip()) > 20: all_texts.append(text.strip())`,
\* for raw the text of variant k, or Null where the call raised or was not made
accepted(raw, k) == raw # Null /\ strip(raw) # "" /\ Len(strip(raw)) > MinChars[k]

\* all_texts from variant k on
RECURSIVE all_texts_from(_, _)
all_texts_from(raws, k) ==
    IF k > Len(raws) THEN <<>>
    ELSE (IF accepted(raws[k], k) THEN <<strip(raws[k])>> ELSE <<>>)
           \o all_texts_from(raws, k + 1)

\* the lines of all the texts, in order
RECURSIVE lines_of(_)
lines_of(texts) ==
    IF texts = <<>> THEN <<>> ELSE split_newline(Head(texts)) \o lines_of(Tail(texts))

\* keep_line gone wrong: the line is compared as it is spelt
keep_line_cased(line_clean, seen_lines) == line_clean # "" /\ line_clean \notin seen_lines

\* `if line_clean and line_clean.lower() not in seen_lines:`
keep_line(line_clean, seen_lines) ==
    line_clean # "" /\ lower(line_clean) \notin seen_lines

\* the two loops over the lines, from line k on
RECURSIVE merged_from(_, _, _)
merged_from(lines, k, seen_lines) ==
    IF k > Len(lines) THEN <<>>
    ELSE IF keep_line(strip(lines[k]), seen_lines)
    THEN <<strip(lines[k])>>
           \o merged_from(lines, k + 1, seen_lines \cup {lower(strip(lines[k]))})
    ELSE merged_from(lines, k + 1, seen_lines)

\* `if all_texts: ... return '\n'.join(merged_lines)`, `else: return None`
combined_text(all_texts) ==
    IF all_texts # <<>> THEN join_lines(merged_from(lines_of(all_texts), 1, {})) ELSE Null

\* tesseract_extract_text where the engine is available: None when Image.open
\* raises, and otherwise the merge of the texts of the variants
tesseract_extract_text(opens, raws) ==
    IF ~opens THEN Null ELSE combined_text(all_texts_from(raws, 1))

\* what image_to_string gives for a variant: nothing (Null: it raised, or the
\* variant was not made), an empty page, or one of three texts
RawTexts == {Null, "\n", "Dolo 650\n  dolo 650 \n\nMFG 10/2023\n",
             "DOLO 650\nB.No. ALA306", "Mfg 10/2023"}
\* the first, the third and the last call give any of them, the others nothing
\* or the second text
VariantTexts ==
    [1..6 -> RawTexts] \cap
        {r \in [1..6 -> RawTexts] : \A k \in {2, 4, 5} : r[k] \in {Null, "DOLO 650\nB.No. ALA306"}}

TesseractMerge ==
    /\ pc = "idle"
    /\ \E opens \in BOOLEAN, raws \in VariantTexts :
          applied' = [fn |-> "tesseract_extract_text", opens |-> opens, raws |-> raws,
                      result |-> tesseract_extract_text(opens, raws)]
    /\ pc' = "done"
    /\ UNCHANGED <<now, phase, cfg, MEDICINE_INFO, db, inserted, reqVars, out, rec, parsed>>

\* the arguments post_process_extracted_data is given on its own
PostBrands == {Null, "", "BIFILAC", " Bifiiac ", "New bifilac forte", "dolo tabs 650",
               "Rabemi caps DSR", "o2", "Crocin", "Each tablet"}
PostDosages == {Null, "500mg"}
PostManufacturers == {Null, "Micro Labs Ltd", "GSK"}
PostTexts == {Null, LabelText, "Paracetamol 650\nMicrolabs", "keep away"}
\* batch, mfd_date, exp_date and mrp_str
PostOthers == {<<Null, Null, Null, Null>>, <<"ala306", "Information not available", "", " 35,70 ">>}

PostProcess ==
    /\ pc = "idle"
    /\ \E brand \in PostBrands, dosage \in PostDosages, manufacturer \in PostManufacturers,
          text \in PostTexts, o \in PostOthers :
          applied' = [fn |-> "post_process_extracted_data",
                      brand |-> brand, dosage |-> dosage, batch |-> o[1],
                      mfd_date |-> o[2], exp_date |-> o[3], manufacturer |-> manufacturer,
                      mrp_str |-> o[4], full_text |-> text,
                      result |-> post_process_returned(brand, dosage, o[1], o[2], o[3],
                                                       manufacturer, o[4], text)]
    /\ pc' = "done"
    /\ UNCHANGED <<now, phase, cfg, MEDICINE_INFO, db, inserted, reqVars, out, rec, parsed>>

\* the texts find_labeled_date_dt is given on its own, with the keywords of the
\* manufacture date and with those of the expiry date, as index passes them
LabelTexts == {"Mfg Lic No: KTK/25/2012", "Mfg Lic No 2012\nEXP DEC.26", "MFG. 10/2023",
               "Mfg Lic No: 2012\nMfg. Date 10/2023", "Mfg Lic No: 77\nEXP 09/2025",
               "Batch 2012\nMfg Lic No: 77", "keep away", ""}
Keywords == [mfd |-> mfd_keywords, exp |-> exp_keywords]

LabeledDate ==
    /\ pc = "idle"
    /\ \E text \in LabelTexts, label \in DOMAIN Keywords :
          applied' = [fn |-> "find_labeled_date_dt", text |-> text, label |-> label,
                      result |-> find_labeled_date_dt(text, Keywords[label], now)]
    /\ pc' = "done"
    /\ UNCHANGED <<now, phase, cfg, MEDICINE_INFO, db, inserted, reqVars, out, rec, parsed>>

\* parse_date_flexible and parse_date_from_gemini are given the same string
ParseText ==
    /\ pc = "idle"
    /\ \E date_str \in DateStrings :
          applied' = [fn |-> "parse_date_flexible", date_str |-> date_str,
                      result |-> parse_date_flexible(date_str, now),
                      gemini |-> parse_date_from_gemini(date_str, now)]
    /\ pc' = "done"
    /\ UNCHANGED <<now, phase, cfg, MEDICINE_INFO, db, inserted, reqVars, out, rec, parsed>>

\* add_months(d, months), and add_months(.., -months) of what it returned
AddMonths ==
    /\ pc = "idle"
    /\ \E d \in MonthDates, months \in MonthCounts :
          applied' = [fn |-> "add_months", d |-> d, months |-> months,
                      raised |-> add_months_raises(d, months),
                      result |-> IF add_months_raises(d, months) THEN NoDate
                                 ELSE add_months(d, months),
                      back |-> IF add_months_raises(d, months) THEN NoDate
                               ELSE add_months(add_months(d, months), 0 - months)]
    /\ pc' = "done"
    /\ UNCHANGED <<now, phase, cfg, MEDICINE_INFO, db, inserted, reqVars, out, rec, parsed>>

\* ------------------------------------------------------------------------
\* find_first_match and clean_extracted_value called on their own
\* ------------------------------------------------------------------------
\* the lists of PATTERNS that index uses, by their keys
PATTERNS ==
    [brand_name |-> PATTERNS_brand_name, dosage |-> PATTERNS_dosage,
     batch_number |-> PATTERNS_batch_number, mfd |-> PATTERNS_mfd,
     expiry |-> PATTERNS_expiry, manufacturer |-> PATTERNS_manufacturer,
     mrp |-> PATTERNS_mrp]

MatchTexts == {"", LabelText, PoorText, "Dolo 650 tablets\nBIFILAC caps",
               "Crocin Advance\nbifilac sachet", "keep away from children",
               "12345 67", "Lot X99\nBatch No: ALA306"}

FieldTypes == {"brand", "batch", "mrp", "date", "text"}
CleanValues == {Null, "", NotAvailable, "-", "BIFILAC", "Dolo-650", "BIFILAC Tablets",
                "Each tablet contains", " : ALA306.", "ALA306", "140.00", "Rs. 35,70",
                "10/2023", "Micro Labs"}

InitFields ==
    /\ now = Today
    /\ phase = "up"
    /\ cfg = [tesseract |-> FALSE, gemini |-> FALSE, key |-> FALSE]
    /\ db = <<>>
    /\ inserted = 0
    /\ Idle

FirstMatch ==
    /\ pc = "idle"
    /\ \E text \in MatchTexts, field \in DOMAIN PATTERNS :
          applied' = [fn |-> "find_first_match", text |-> text, field |-> field,
                      result |-> find_first_match(text, PATTERNS[field])]
    /\ pc' = "done"
    /\ UNCHANGED <<now, phase, cfg, MEDICINE_INFO, db, inserted, reqVars, out, rec, parsed>>

Clean ==
    /\ pc = "idle"
    /\ \E value \in CleanValues, field_type \in FieldTypes :
          applied' = [fn |-> "clean_extracted_value", value |-> value,
                      field_type |-> field_type,
                      result |-> clean_extracted_value(value, field_type)]
    /\ pc' = "done"
    /\ UNCHANGED <<now, phase, cfg, MEDICINE_INFO, db, inserted, reqVars, out, rec, parsed>>

\* ------------------------------------------------------------------------
\* Specifications
\* ------------------------------------------------------------------------
Next ==
    \/ Startup
    \/ IndexStart
    \/ DirectPass
    \/ OcrLocal
    \/ OcrModel
    \/ OcrCloud
    \/ OcrModelAgain
    \/ RegexPass
    \/ TextModelPass
    \/ Finish
    \/ SaveOcr
    \/ MedicineInfo

Spec == Init /\ [][Next]_vars

NextDates == Reconcile \/ ParseDate \/ ParseText \/ AddMonths \/ LabeledDate

SpecDates == InitDates /\ [][NextDates]_vars

\* mrp_val of index for the price string of the direct reply, which index cleans as
\* an "mrp" before it parses it, and for the same string in the reply of the text
\* model, which index only strips
mrp_direct(mrp) == parse_mrp(clean_extracted_value(mrp, "mrp"))
mrp_text_model(mrp) == parse_mrp(IF Truthy(mrp) THEN strip(mrp) ELSE Null)

\* the price strings a reply may hold
MrpStrings == {Null, "", "abc", "35,70", "35.70", "140", " 140.00 ", "1,250", "Rs. 35,7"}

MrpByPass ==
    /\ pc = "idle"
    /\ \E mrp \in MrpStrings :
          applied' = [fn |-> "mrp_val", mrp |-> mrp, direct |-> mrp_direct(mrp),
                      text_model |-> mrp_text_model(mrp)]
    /\ pc' = "done"
    /\ UNCHANGED <<now, phase, cfg, MEDICINE_INFO, db, inserted, reqVars, out, rec, parsed>>

NextFields == FirstMatch \/ Clean \/ TesseractMerge \/ PostProcess \/ MrpByPass

SpecFields == InitFields /\ [][NextFields]_vars

\* ------------------------------------------------------------------------
\* Properties
\* ------------------------------------------------------------------------
\* C1: whatever pair of dates reconcile_dates_from_text is given (both present and
\* ordered, both present and inverted, only one present, none), whatever date
\* candidates and shelf life the text holds, the pair (mfd, exp) it returns has
\* mfd <= exp.
C1_ReconciledOrdered ==
    rec.done => /\ rec.result[1] # NoDate
                /\ rec.result[2] # NoDate
                /\ DateLE(rec.result[1], rec.result[2])

\* the reconciler was given an inverted pair and a text with two candidates
C1_Witness ==
    /\ rec.done
    /\ rec.mfd_dt # NoDate /\ rec.exp_dt # NoDate /\ DateLT(rec.exp_dt, rec.mfd_dt)
    /\ Cardinality(find_date_candidates(rec.text, now)) >= 2
    /\ DateLT(rec.result[1], rec.result[2])

\* C2: every row of Medicine that index or save_ocr stored has
\* manufacture_date <= expiry_date, whether the dates were extracted, missing or
\* inverted and whether or not there was OCR text.
C2_StoredOrdered ==
    \A k \in 1..Len(db) : DateLE(db[k].manufacture_date, db[k].expiry_date)

\* the last row holds the extracted dates m and e the other way round
stored_swapped(m, e) ==
    /\ m # NoDate /\ e # NoDate /\ DateLT(e, m)
    /\ db[Len(db)].manufacture_date = e
    /\ db[Len(db)].expiry_date = m

\* index stored a row without OCR text, the reconciler skipped, from extracted
\* dates that were inverted
C2_Witness ==
    /\ pc = "done" /\ out.kind = "result"
    /\ ~Truthy(full_text)
    /\ stored_swapped(parse_date_from_gemini(f.mfd_date, now),
                      parse_date_from_gemini(f.exp_date, now))

\* the backends ocr_extract_text tries with the flags of cfg, in its order
backend_order ==
    LET available(b) == /\ b = "local" => cfg.tesseract
                        /\ b = "model" => cfg.gemini /\ cfg.key
    IN SelectSeq(<<"local", "model", "cloud", "model">>, available)

\* C3: ocr_extract_text calls the backends in the order local engine, model, cloud
\* service, model again; once a backend has returned text no later backend is
\* called, and the result is that backend's text.
C3_CascadeOrder ==
    /\ Len(calls) <= Len(backend_order)
    /\ \A k \in 1..Len(calls) : calls[k].backend = backend_order[k]
    /\ \A k \in 1..(Len(calls) - 1) : ~Truthy(calls[k].text)
    /\ (pc = "ocr_return" /\ calls # <<>> /\ Truthy(calls[Len(calls)].text))
          => ocr_text = calls[Len(calls)].text

\* the local engine gave nothing, the model gave text, and the function returned
\* that text without a call of the cloud service
C3_Witness ==
    /\ pc = "ocr_return"
    /\ Len(calls) = 2
    /\ calls[1] = [backend |-> "local", text |-> Null]
    /\ calls[2].backend = "model" /\ Truthy(calls[2].text)
    /\ ocr_text = calls[2].text

\* a backend's result that holds no text: None, empty or blank
no_text(t) == t = Null \/ strip(t) = ""

\* C4: in ocr_extract_text a backend that failed or gave an empty result counts as
\* no text and the next backend is still tried: when no backend called gave text,
\* every backend of the cascade has been called; and None is returned only then.
C4_EmptyResultGoesOn ==
    pc = "ocr_return" =>
       /\ (\A k \in 1..Len(calls) : no_text(calls[k].text))
             => Len(calls) = Len(backend_order)
       /\ ocr_text = Null
             => /\ \A k \in 1..Len(calls) : no_text(calls[k].text)
                /\ Len(calls) = Len(backend_order)

\* C5: in index no pass overwrites a field an earlier pass populated: from one
\* snapshot of the fields to the next, a field that was not empty keeps its value.
C5_PassesKeepFields ==
    \A k \in 1..(Len(hist) - 1) : \A n \in FieldNames :
        Truthy(hist[k][n]) => hist[k + 1][n] = hist[k][n]

\* the three passes ran, the first populated a field the second pass has a value
\* for, and a later pass filled a field the first had left empty
C5_Witness ==
    /\ Len(hist) = 4
    /\ Truthy(hist[2].dosage)
    /\ find_first_match(full_text, PATTERNS_dosage) # hist[2].dosage
    /\ \E n \in FieldNames : ~Truthy(hist[2][n]) /\ Truthy(hist[4][n])

\* the key of the text model's dict, and the patterns, for each field but the brand
DictKey == [dosage |-> "dosage", batch |-> "batch_number",
            mfd_date |-> "manufacture_date", exp_date |-> "expiry_date",
            manufacturer |-> "manufacturer", mrp_str |-> "mrp"]
PatternsOf == [dosage |-> PATTERNS_dosage, batch |-> PATTERNS_batch_number,
               mfd_date |-> PATTERNS_mfd, exp_date |-> PATTERNS_expiry,
               manufacturer |-> PATTERNS_manufacturer, mrp_str |-> PATTERNS_mrp]

\* C6: the pass over the text model's dict fills what the first two passes left
\* missing: a field the direct-image pass did not return and no pattern matched,
\* for which the text model gave a value, holds that value after the third pass.
C6_ThirdPassFills ==
    (Len(hist) = 4 /\ gem_fields.ok) =>
        \A n \in DOMAIN DictKey :
            (/\ ~Truthy(hist[2][n])
             /\ find_first_match(full_text, PatternsOf[n]) = NotAvailable
             /\ Truthy(strip(gem_fields[DictKey[n]])))
                => hist[4][n] = strip(gem_fields[DictKey[n]])

\* C7: the placeholder 'Information not available' is never data: no field of the
\* result of an analysis (brand, dosage, batch, manufacturer) and no field of the
\* row it stored equals the placeholder.
C7_NoPlaceholderAsData ==
    out.kind = "result" =>
        /\ \A n \in {"brand", "dosage", "batch", "manufacturer"} :
              out.result[n] # NotAvailable
        /\ db[Len(db)].medicine_name # NotAvailable
        /\ db[Len(db)].brand # NotAvailable
        /\ db[Len(db)].batch_number # NotAvailable

\* C8: an analysis ends with the error message exactly when there was no OCR text
\* and the direct-image pass gave no field at all; when that pass gave any field
\* the analysis ends with a result.
C8_ErrorIffNothing ==
    (pc = "done" /\ out.kind \in {"error", "result"}) =>
        (out.kind = "error" <=> (~Truthy(full_text) /\ hist[2] = NoFields))

\* C9: the absence of a backend's credential or installation never makes the
\* start of the process fail.
C9_StartupNeverFails == phase # "failed"

\* C10 as stated: for every year y with 1990 <= y <= current year + 20 and every
\* month m, parse_date_flexible gives (y, m) back for (y, m) written 'JAN.24'.
C10_RoundTrip ==
    parsed.done => /\ parsed.result # NoDate
                   /\ parsed.result[1] = parsed.y
                   /\ parsed.result[2] = parsed.m

\* C10 amended: the round trip holds for every year y with
\* 1990 <= y <= min(current year + 20, 2068) and every month m.
C10_RoundTripTo2068 ==
    (parsed.done /\ parsed.y <= 2068) =>
        /\ parsed.result # NoDate
        /\ parsed.result[1] = parsed.y
        /\ parsed.result[2] = parsed.m

\* a month of a year from 2050 on was written and read back
C10_Witness ==
    /\ parsed.done
    /\ parsed.y >= 2050 /\ parsed.y <= 2068
    /\ parsed.date_str = "JUN.50"
    /\ parsed.result = <<2050, 6, 1>>

\* a date that is absent or on the first day of its month
first_of_month(d) == d # NoDate => d[3] = 1

\* C11: every manufacture and expiry date the pipeline produces is on day 1 of its
\* month: the date parse_date_flexible returns, and both dates of the pair
\* reconcile_dates_from_text returns for dates that are absent or on day 1, its
\* default from today included.
C11_DayOne ==
    /\ parsed.done => first_of_month(parsed.result)
    /\ (rec.done /\ first_of_month(rec.mfd_dt) /\ first_of_month(rec.exp_dt))
          => first_of_month(rec.result[1]) /\ first_of_month(rec.result[2])

\* the reply holds no JSON object: neither its text without the code fences nor
\* the part of that text from the first { to the last } is the document of a dict
not_an_object(text) ==
    /\ json_loads(text).k # "dict"
    /\ \/ Search(RE_braces, text) = Fail
       \/ json_loads(Group0(text, Search(RE_braces, text))).k # "dict"

\* C12: the two model-assisted field extractors never raise: without a key, when
\* the call of the model fails and when the reply holds no JSON object they
\* return None, and index goes on with its next pass.
C12_ExtractorsNeverRaise ==
    ext.fn # "none" =>
        /\ ext.result # Raised
        /\ out.kind # "failed"
        /\ Len(hist) >= 2
        /\ (\/ ~(cfg.gemini /\ cfg.key)
            \/ ext.reply.k = "raise"
            \/ ext.reply.k = "text" /\ not_an_object(unfenced(ext.reply.text)))
              => ext.result = NoDict

\* the call of the model failed in the direct-image extraction, which gave None,
\* and the analysis went on to a result
C12_Witness ==
    /\ ext.fn = "image"
    /\ ext.reply.k = "raise"
    /\ ext.result = NoDict
    /\ pc = "done" /\ out.kind = "result"

\* C13: a value ocr_extract_text returns that is not None is a string with at
\* least one character that is not white space, whichever backend gave it.
C13_ReturnedTextNotBlank ==
    (pc = "ocr_return" /\ ocr_text # Null) => strip(ocr_text) # ""

\* the indices of the patterns with a group that match somewhere in the text
matching(text, patterns) ==
    {k \in 1..Len(patterns) : Search(patterns[k], text) # Fail
                                 /\ HasGroups(Search(patterns[k], text))}

\* the trimmed first group of the match of pattern k
first_group(text, pattern) == strip(Group(text, Search(pattern, text), 1))

\* the value C14 asks for, ks being the indices of the patterns that match
lowest_index_value(text, patterns, ks) ==
    IF ks = {} THEN NotAvailable
    ELSE first_group(text, patterns[CHOOSE k \in ks : \A j \in ks : k <= j])

\* C14: find_first_match returns the trimmed first group of the lowest-index
\* pattern that matches anywhere in the text, and the placeholder when none
\* matches; for a text that holds BIFILAC and a generic brand-shaped token the
\* brand patterns give the BIFILAC token.
C14_LowestPatternWins ==
    applied.fn = "find_first_match" =>
        /\ applied.result = lowest_index_value(applied.text, PATTERNS[applied.field],
                                               matching(applied.text,
                                                        PATTERNS[applied.field]))
        /\ (applied.field = "brand_name" /\ Contains(lower(applied.text), "bifilac"))
              => lower(applied.result) = "bifilac"

\* the text starts with a generic brand-shaped token that a later pattern matches
\* and holds BIFILAC further on: the brand patterns gave BIFILAC
C14_Witness ==
    /\ applied.fn = "find_first_match"
    /\ applied.field = "brand_name"
    /\ applied.text = "Dolo 650 tablets\nBIFILAC caps"
    /\ Cardinality(matching(applied.text, PATTERNS_brand_name)) >= 2
    /\ applied.result = "BIFILAC"

\* values that are clean already, by field type
CleanAlready ==
    [brand |-> {"BIFILAC", "Dolo-650"}, batch |-> {"ALA306"}, mrp |-> {"140.00"},
     date |-> {"10/2023"}, text |-> {"Micro Labs"}]

\* C15: clean_extracted_value gives back unchanged a value that is clean already
\* (no punctuation or white space around it, not the placeholder, valid for its
\* field type), for every field type.
C15_CleanUnchanged ==
    (applied.fn = "clean_extracted_value"
       /\ applied.value \in CleanAlready[applied.field_type])
        => applied.result = applied.value

\* C16: once the process is up no request changes the state the requests share:
\* MEDICINE_INFO and the availability flags keep their contents in every step.
C16_SharedStateConstant ==
    [][phase = "up" => (MEDICINE_INFO' = MEDICINE_INFO /\ cfg' = cfg)]_vars

\* the deny-list of C17: the generic lead words
deny_list == {"each", "film", "coated", "tablet", "capsule", "contains", "information",
              "store", "keep", "protect", "the", "this", "for", "use"}

\* the first token of a value, case-folded
first_token(value) == split(lower(value))[1]

\* C17: for field type brand, clean_extracted_value returns None exactly for the
\* values whose first token, case-folded, is in the deny-list; any other value
\* that is not empty is returned, without a trailing dosage form: BIFILAC and
\* Dolo-650 as they are, 'BIFILAC Tablets' as BIFILAC.
C17_BrandDenyList ==
    (applied.fn = "clean_extracted_value" /\ applied.field_type = "brand"
       /\ Truthy(applied.value) /\ split(applied.value) # <<>>
       /\ applied.value # "-")
        => /\ applied.result = Null <=> first_token(applied.value) \in deny_list
           /\ applied.value \in {"BIFILAC", "Dolo-650"} => applied.result = applied.value
           /\ applied.value = "BIFILAC Tablets" => applied.result = "BIFILAC"

\* the pair C18 asks for, for the candidates of the text
min_max_or_swap(candidates, mfd_dt, exp_dt) ==
    IF Cardinality(candidates) >= 2
    THEN <<CHOOSE d \in candidates : \A e \in candidates : ~DateLT(e, d),
           CHOOSE d \in candidates : \A e \in candidates : ~DateLT(d, e)>>
    ELSE <<exp_dt, mfd_dt>>

\* C18: given both dates with expiry < manufacture, reconcile_dates_from_text
\* returns (min, max) of the candidates when the text holds two or more, and
\* otherwise the two dates swapped, whatever else the text holds.
C18_InvertedRule ==
    (rec.done /\ rec.mfd_dt # NoDate /\ rec.exp_dt # NoDate
       /\ DateLT(rec.exp_dt, rec.mfd_dt))
        => rec.result = min_max_or_swap(find_date_candidates(rec.text, now),
                                        rec.mfd_dt, rec.exp_dt)

\* an inverted pair came with a text that holds a shelf life and no candidate, and
\* was returned swapped
C18_Witness ==
    /\ rec.done
    /\ rec.text = "shelf life 24 months"
    /\ rec.mfd_dt = <<2046, 12, 1>> /\ rec.exp_dt = <<2023, 1, 1>>
    /\ rec.result = <<<<2023, 1, 1>>, <<2046, 12, 1>>>>

\* C19: for mfd = (2026, 1), exp = (2023, 1) and a text whose date tokens are
\* 06/2022 and 06/2025, or Jun 2022 and Jun 2025, the reconciled pair is
\* ((2022, 6), (2025, 6)): each token gives the candidate set its own month only.
C19_TokensAreCandidates ==
    (rec.done /\ rec.mfd_dt = <<2026, 1, 1>> /\ rec.exp_dt = <<2023, 1, 1>>
       /\ rec.text \in {"06/2022 06/2025", "Jun 2022 Jun 2025"})
        => /\ find_date_candidates(rec.text, now) = {<<2022, 6, 1>>, <<2025, 6, 1>>}
           /\ rec.result = <<<<2022, 6, 1>>, <<2025, 6, 1>>>>

\* d moved forward by n months, on a day both months have
months_after(d, n) ==
    <<d[1] + ((d[2] - 1 + n) \div 12), ((d[2] - 1 + n) % 12) + 1,
      IF d[3] > 28 THEN 28 ELSE d[3]>>

\* the expiry C20 asks for: found says whether the text holds a shelf life, life
\* is its months, later are the candidates after mfd_dt
expiry_by_priority(found, life, later, mfd_dt) ==
    IF found THEN months_after(mfd_dt, life)
    ELSE IF later # {} THEN CHOOSE d \in later : \A e \in later : ~DateLT(e, d)
    ELSE months_after(mfd_dt, 24)

\* the candidates of the text of rec that are after its manufacture date
rec_later == {d \in find_date_candidates(rec.text, now) : DateLT(rec.mfd_dt, d)}

\* C20 as stated: given a manufacture date and no expiry date,
\* reconcile_dates_from_text returns the manufacture date unchanged and as expiry
\* manufacture + shelf life when the text holds a shelf life, else the earliest
\* candidate after manufacture, else manufacture + 24 months.
C20_MissingExpiry ==
    (rec.done /\ rec.mfd_dt # NoDate /\ rec.exp_dt = NoDate)
        => /\ rec.result[1] = rec.mfd_dt
           /\ rec.result[2] = expiry_by_priority(shelf_life_months(rec.text) # -1,
                                                 shelf_life_months(rec.text), rec_later,
                                                 rec.mfd_dt)

\* C20 amended: the same, where a shelf life of 0 months counts as none.
C20_MissingExpiryNonZero ==
    (rec.done /\ rec.mfd_dt # NoDate /\ rec.exp_dt = NoDate)
        => /\ rec.result[1] = rec.mfd_dt
           /\ rec.result[2] = expiry_by_priority(shelf_life_months(rec.text) \notin {-1, 0},
                                                 shelf_life_months(rec.text), rec_later,
                                                 rec.mfd_dt)

\* manufacture (2024, 1) came without expiry and with a text that holds a shelf
\* life of 24 months and a later candidate: the expiry is (2026, 1)
C20_Witness ==
    /\ rec.done
    /\ rec.text = "shelf life 24 months EXP 06/2027"
    /\ rec.mfd_dt = <<2024, 1, 1>> /\ rec.exp_dt = NoDate
    /\ rec_later # {}
    /\ rec.result = <<<<2024, 1, 1>>, <<2026, 1, 1>>>>

\* the manufacture date C21 asks for: found says whether the text holds a shelf
\* life, life is its months, earlier are the candidates before exp_dt
manufacture_by_priority(found, life, earlier, exp_dt) ==
    IF earlier # {} THEN CHOOSE d \in earlier : \A e \in earlier : ~DateLT(d, e)
    ELSE IF found THEN months_after(exp_dt, 0 - life)
    ELSE months_after(exp_dt, 0 - 24)

\* the candidates of the text of rec that are before its expiry date
rec_earlier == {d \in find_date_candidates(rec.text, now) : DateLT(d, rec.exp_dt)}

\* C21 as stated: given an expiry date and no manufacture date,
\* reconcile_dates_from_text returns the expiry date unchanged and as manufacture
\* the latest candidate before expiry, else expiry - shelf life when the text
\* holds a shelf life, else expiry - 24 months.
C21_MissingManufacture ==
    (rec.done /\ rec.exp_dt # NoDate /\ rec.mfd_dt = NoDate)
        => /\ rec.result[2] = rec.exp_dt
           /\ rec.result[1] = manufacture_by_priority(shelf_life_months(rec.text) # -1,
                                                      shelf_life_months(rec.text),
                                                      rec_earlier, rec.exp_dt)

\* C21 amended: the same, where a shelf life of 0 months counts as none.
C21_MissingManufactureNonZero ==
    (rec.done /\ rec.exp_dt # NoDate /\ rec.mfd_dt = NoDate)
        => /\ rec.result[2] = rec.exp_dt
           /\ rec.result[1] = manufacture_by_priority(
                                  shelf_life_months(rec.text) \notin {-1, 0},
                                  shelf_life_months(rec.text), rec_earlier, rec.exp_dt)

\* expiry (2046, 12) came without manufacture and with a text that holds a shelf
\* life of 24 months and two earlier candidates: the manufacture date is the later
\* of the two, not expiry - 24 months
C21_Witness ==
    /\ rec.done
    /\ rec.text = "shelf life 24 months EXP 06/2027"
    /\ rec.exp_dt = <<2046, 12, 1>> /\ rec.mfd_dt = NoDate
    /\ shelf_life_months(rec.text) = 24
    /\ rec.result = <<<<2027, 6, 1>>, <<2046, 12, 1>>>>

\* the pair C22 asks for when both dates are absent
pair_of_candidates(candidates, today) ==
    IF Cardinality(candidates) >= 2
    THEN <<CHOOSE d \in candidates : \A e \in candidates : ~DateLT(e, d),
           CHOOSE d \in candidates : \A e \in candidates : ~DateLT(d, e)>>
    ELSE IF Cardinality(candidates) = 1
    THEN <<CHOOSE d \in candidates : TRUE, months_after(CHOOSE d \in candidates : TRUE, 24)>>
    ELSE <<today, months_after(today, 12)>>

\* C22: given neither date, reconcile_dates_from_text returns (min, max) of the
\* candidates when there are at least two, (d, d + 24 months) for a single
\* candidate d, and (today, today + 12 months) when there is none.
C22_BothMissing ==
    (rec.done /\ rec.mfd_dt = NoDate /\ rec.exp_dt = NoDate)
        => rec.result = pair_of_candidates(find_date_candidates(rec.text, now), now)

\* neither date came and the text holds the single candidate January 2012
C22_Witness ==
    /\ rec.done
    /\ rec.mfd_dt = NoDate /\ rec.exp_dt = NoDate
    /\ rec.text = "Mfg Lic No 2012\nEXP DEC.26"
    /\ find_date_candidates(rec.text, now) = {<<2012, 1, 1>>}
    /\ rec.result = <<<<2012, 1, 1>>, <<2014, 1, 1>>>>

\* the year of d is one the parsers may return on the day now
year_in_range(d, today) == d # NoDate => (1990 <= d[1] /\ d[1] <= today[1] + 20)

\* C23: a date that parse_date_flexible or parse_date_from_gemini returns has its
\* year in 1990 .. the current year + 20, whichever rule gave it.
C23_YearInRange ==
    /\ parsed.done => year_in_range(parsed.result, now)
    /\ applied.fn = "parse_date_flexible"
          => year_in_range(applied.result, now) /\ year_in_range(applied.gemini, now)

\* 'Jan 1985' holds a month and a year outside the range: both parsers give None;
\* '12-2050' holds a year outside the range on the first clock, and the parser
\* goes on to the rule of the two-digit year
C23_Witness ==
    /\ applied.fn = "parse_date_flexible"
    /\ \/ /\ applied.date_str = "Jan 1985"
          /\ applied.result = NoDate /\ applied.gemini = NoDate
       \/ /\ applied.date_str = "12-2050" /\ now = Today
          /\ applied.result = <<2012, 1, 1>>

\* r"\b((?:19|20)\d{2})\b": a year of four digits that begins with 19 or 20
RE_year_19_20 ==
    <<WB, Grp(1, <<Alt(<<CS("19"), CS("20")>>), Rep(2, 2, <<In(Digit)>>)>>), WB>>

\* the rules of parse_date_flexible in the order and with the content C24 gives
\* them
rules_as_stated(s, today) ==
    IF lower(s) \in Placeholders THEN NoDate
    ELSE pdf_month_year(s, Search(RE_pdf_1, s), today,
         pdf_mm_year(s, Search(RE_pdf_2, s), today,
         pdf_year_only(s, Search(RE_year_19_20, s), today,
         pdf_year_only(s, Search(RE_pdf_4, s), today,
         try_fmts(strip(sub_spaces(sub_dot_digit(s))), 1, today)))))

\* C24: parse_date_flexible returns what the first of its five rules that yields a
\* year in the range gives, the third rule being a year of four digits that begins
\* with 19 or 20; 'DEC.26' gives (2026, 12), '10/2023' gives (2023, 10), and
\* '1995 24' gives January 1995.
C24_FirstRuleWins ==
    applied.fn = "parse_date_flexible" =>
        /\ applied.result = rules_as_stated(strip(applied.date_str), now)
        /\ applied.date_str = "DEC.26" => applied.result = <<2026, 12, 1>>
        /\ applied.date_str = "10/2023" => applied.result = <<2023, 10, 1>>
        /\ applied.date_str = "1995 24" => applied.result = <<1995, 1, 1>>

\* the greatest q with 12 * q <= x, for x in -300000 .. 1200000
floor_12(x) == CHOOSE q \in -25000..100000 : 12 * q <= x /\ x < 12 * (q + 1)

\* the date C25 gives for d and N months
month_arithmetic(d, N) ==
    <<d[1] + floor_12(d[2] - 1 + N), (d[2] - 1 + N) - 12 * floor_12(d[2] - 1 + N) + 1,
      IF d[3] <= 28 THEN d[3] ELSE 28>>

\* what C25 says of a call of add_months that was given a date
arithmetic_holds ==
    /\ ~applied.raised
    /\ applied.result = month_arithmetic(applied.d, applied.months)
    /\ applied.result[2] \in 1..12
    /\ applied.d[3] <= 28 => applied.back = applied.d

\* C25 as stated: for every date d and every integer N, add_months(d, N) has year
\* d.year + floor((d.month - 1 + N) / 12), month ((d.month - 1 + N) mod 12) + 1,
\* which is in 1..12, and day min(d.day, 28); for a day up to 28,
\* add_months(add_months(d, N), -N) = d.
C25_MonthArithmetic ==
    (applied.fn = "add_months" /\ applied.d # NoDate) => arithmetic_holds

\* C25 amended: the same for every N that leaves the year within 1..9999.
C25_MonthArithmeticInRange ==
    (/\ applied.fn = "add_months" /\ applied.d # NoDate
     /\ applied.d[1] + floor_12(applied.d[2] - 1 + applied.months) \in 1..9999)
        => arithmetic_holds

\* thirteen months are taken off 31 January 2024: 28 December 2022
C25_Witness ==
    /\ applied.fn = "add_months"
    /\ applied.d = <<2024, 1, 31>> /\ applied.months = -13
    /\ applied.result = <<2022, 12, 28>>
    /\ ~applied.raised

\* the trimmed lines, empty ones left out, of the variants of applied that were
\* accepted, in the order the variants were run
RECURSIVE trimmed(_)
trimmed(lines) ==
    IF lines = <<>> THEN <<>>
    ELSE (IF strip(Head(lines)) # "" THEN <<strip(Head(lines))>> ELSE <<>>)
           \o trimmed(Tail(lines))
variant_lines == trimmed(lines_of(all_texts_from(applied.raws, 1)))

\* line k of ls is the first of ls with its letters, case ignored
first_seen(ls, k) == \A j \in 1..(k - 1) : lower(ls[j]) # lower(ls[k])

\* the lines of ls that are first_seen, in order
RECURSIVE first_seen_from(_, _)
first_seen_from(ls, k) ==
    IF k > Len(ls) THEN <<>>
    ELSE (IF first_seen(ls, k) THEN <<ls[k]>> ELSE <<>>) \o first_seen_from(ls, k + 1)

\* the lines of the text tesseract_extract_text returned
merged_output == split_newline(applied.result)

\* C26: in the text tesseract_extract_text returns, no two lines are equal
\* ignoring case, every trimmed, non-empty line of an accepted variant is there
\* (ignoring case) exactly once, and the lines are in the order of their first
\* occurrence over the variants in the order these were run.
C26_MergedLines ==
    (applied.fn = "tesseract_extract_text" /\ applied.result # Null) =>
        /\ \A i, j \in 1..Len(merged_output) :
              i # j => lower(merged_output[i]) # lower(merged_output[j])
        /\ \A k \in 1..Len(variant_lines) :
              Cardinality({i \in 1..Len(merged_output) :
                              lower(merged_output[i]) = lower(variant_lines[k])}) = 1
        /\ merged_output = first_seen_from(variant_lines, 1)

\* the first variant read 'Dolo 650' twice, in two spellings, and the second read
\* it in a third one with a new line: the merge has three lines
C26_Witness ==
    /\ applied.fn = "tesseract_extract_text"
    /\ applied.raws[1] = "Dolo 650\n  dolo 650 \n\nMFG 10/2023\n"
    /\ applied.raws[2] = "DOLO 650\nB.No. ALA306"
    /\ applied.raws[6] = "Mfg 10/2023"
    /\ applied.result = "Dolo 650\nMFG 10/2023\nB.No. ALA306"

\* the keys of the table of brand corrections
correction_keys == {brand_corrections[k][1] : k \in 1..Len(brand_corrections)}

\* b, in lower case, holds a known brand name: bifilac, the two parts of
\* rabemi-dsr or of dolo-650, or it is o2
holds_known_brand(b) ==
    \/ Contains(b, "bifilac")
    \/ Contains(b, "rabemi") /\ Contains(b, "dsr")
    \/ Contains(b, "dolo") /\ Contains(b, "650")
    \/ b = "o2"

\* what post_process_extracted_data returns for the arguments of applied with no
\* full text
returned_without_text ==
    post_process_returned(applied.brand, applied.dosage, applied.batch, applied.mfd_date,
                          applied.exp_date, applied.manufacturer, applied.mrp_str, "")

\* C27: post_process_extracted_data returns batch, mfd_date, exp_date and mrp_str
\* as given; a brand that is not empty is changed only when it is a key of the
\* correction table or holds a known brand name; and the full text decides the
\* brand or the manufacturer only when that field came empty.
C27_PostProcessFrame ==
    applied.fn = "post_process_extracted_data" =>
        /\ applied.result.batch = applied.batch
        /\ applied.result.mfd_date = applied.mfd_date
        /\ applied.result.exp_date = applied.exp_date
        /\ applied.result.mrp_str = applied.mrp_str
        /\ (Truthy(applied.brand) /\ applied.result.brand # applied.brand)
              => \/ strip(lower(applied.brand)) \in correction_keys
                 \/ holds_known_brand(strip(lower(applied.brand)))
        /\ Truthy(applied.brand) => applied.result.brand = returned_without_text.brand
        /\ Truthy(applied.manufacturer)
              => applied.result.manufacturer = returned_without_text.manufacturer

\* the brand 'Crocin' came with a text that names BIFILAC and a price '35,70':
\* both are returned as they came
C27_Witness ==
    /\ applied.fn = "post_process_extracted_data"
    /\ applied.brand = "Crocin" /\ applied.full_text = LabelText
    /\ applied.mrp_str = " 35,70 " /\ applied.batch = "ala306"
    /\ applied.result.brand = "Crocin"
    /\ applied.result.mrp_str = " 35,70 " /\ applied.result.batch = "ala306"

\* a line that holds one of the keywords, and one that holds a licence marker
keyword_line(line, kws) == \E k \in 1..Len(kws) : Contains(lower(line), lower(kws[k]))
licence_line(line) == Contains(lower(line), "lic") \/ Contains(lower(line), "license")

\* every line of the text that holds a keyword holds a licence marker, and there
\* is such a line
only_on_licence_lines(text, kws) ==
    /\ \E i \in 1..Len(splitlines(text)) : keyword_line(splitlines(text)[i], kws)
    /\ \A i \in 1..Len(splitlines(text)) :
          keyword_line(splitlines(text)[i], kws) => licence_line(splitlines(text)[i])

\* C28: for a text in which every occurrence of the keywords is on a line with a
\* licence marker, find_labeled_date_dt returns None.
C28_NoDateFromLicence ==
    (/\ applied.fn = "find_labeled_date_dt"
     /\ only_on_licence_lines(applied.text, Keywords[applied.label]))
        => applied.result = NoDate

\* the rows of the brand of the row index has just added that were stored before it
earlier_of_brand(before, after) ==
    {k \in 1..Len(before) : lower(before[k].medicine_name) = lower(after[Len(after)].medicine_name)}

\* C29: when index answers with a result, the previous price it reports is the
\* price of a row of the same brand that was in the table before this request
\* added its own row, and there is no previous price when there was no such row.
C29_PreviousPriceIsEarlier ==
    [][(pc = "finish" /\ pc' = "done" /\ out'.kind = "result")
          => /\ earlier_of_brand(db, db') = {} => out'.prev_price = <<>>
             /\ out'.prev_price # <<>>
                   => \E k \in earlier_of_brand(db, db') :
                         out'.prev_price = <<db[k].price_per_unit>>]_vars

\* C30: the price index computes from a price string is the same number when the
\* string came in the direct reply and when it came in the reply of the text model.
C30_SameNumberByPass ==
    applied.fn = "mrp_val" => applied.direct = applied.text_model

====
